---- MODULE Spec2Model ----
(***************************************************************************)
(* Delay propagation and dependency resolution of the planning module      *)
(* (planung.py): the persistent train list Planung.zugliste, the            *)
(* correction strategies (VerspaetungsKorrektur family) and the            *)
(* orchestrator methods of Planung.                                        *)
(*                                                                         *)
(* Python objects are records.  Object references are train ids (zid) and  *)
(* pairs <<zid, index>> for a stop: a persisted fahrplan list is never     *)
(* re-ordered, so the pair names the same object for the whole session.    *)
(* Indices are 0-based as in the source; fahrplan[i] of the source is      *)
(* fahrplan[i+1] of the TLA+ sequence.                                     *)
(***************************************************************************)
EXTENDS Integers, Sequences, FiniteSets, TLC

VARIABLES
    welt,        \* the simulator's static timetable: zid -> master data of the train
    sim,         \* the simulator's dynamic state per train (what the feed reports)
    zugliste,    \* Planung.zugliste: zid -> ZugDetailsPlanung
    schluessel,  \* insertion order of the keys of Planung.zugliste (python dict order)
    fehler,      \* "" or the name of the exception that ended the last call
    aufruf       \* the last call of a Planung method, with its inputs and its pre-state

vars == <<welt, sim, zugliste, schluessel, fehler, aufruf>>

----------------------------------------------------------------------------
(* Bounds of the model *)

\* feed delays range over 0 .. MaxVerspaetung
MaxVerspaetung == 2
\* nesting depth of zugverspaetung_korrigieren up to which the calls are followed
MaxTiefe == 6
\* number of passes of the work queue loop of folgezuege_aufloesen that are followed
MaxDurchlauf == 12
\* number of stops that carry a dispatcher override at the same time
MaxFdl == 1

----------------------------------------------------------------------------
(* Python values *)

\* None for a datetime.time attribute (FahrplanZeile.an / .ab)
NoneZeit == <<>>
\* None for a reference to a train (ersatzzug, kuppelzug, fluegelzug, stammzug) and
\* the falsy result of ersatz_zid() / kuppel_zid() / fluegel_zid()
NoneZid == 0
\* None for ZugDetails.ziel_index
NoneIndex == -1
\* None for a reference to a stop (VerspaetungsKorrektur.ursprung)
NoneZiel == <<0, -1>>

Max(a, b) == IF a >= b THEN a ELSE b
Abs(a) == IF a >= 0 THEN a ELSE -a

\* datetime.time as <<hour, minute>>
time_to_minutes(t) == t[1] * 60 + t[2]
minutes_to_time(m) == <<m \div 60, m % 60>>

\* minimum dwell times set by ziel_korrekturen_definieren
MindestRichtungswechsel == 2
MindestLokumlauf == 2
MindestLokwechsel == 5
MindestFluegelung == 1
\* wait time of the AbfahrtAbwarten strategy of a split-off train
WartezeitFluegelung == 2
\* collision window of Kupplung.anwenden
KuppelAbstand == 2

----------------------------------------------------------------------------
(* Correction strategy objects *)

KeineKorrektur == [art |-> "None", verspaetung |-> 0, ursprung |-> NoneZiel, wartezeit |-> 0]
FesteVerspaetung(v) == [KeineKorrektur EXCEPT !.art = "FesteVerspaetung", !.verspaetung = v]
PlanmaessigeAbfahrt == [KeineKorrektur EXCEPT !.art = "PlanmaessigeAbfahrt"]
AnkunftAbwarten(u, w) == [KeineKorrektur EXCEPT !.art = "AnkunftAbwarten", !.ursprung = u, !.wartezeit = w]
AbfahrtAbwarten(u, w) == [KeineKorrektur EXCEPT !.art = "AbfahrtAbwarten", !.ursprung = u, !.wartezeit = w]
Ersatzzug == [KeineKorrektur EXCEPT !.art = "Ersatzzug"]
Kupplung == [KeineKorrektur EXCEPT !.art = "Kupplung"]
Fluegelung == [KeineKorrektur EXCEPT !.art = "Fluegelung"]

----------------------------------------------------------------------------
(* FahrplanZeile / ZugZielPlanung *)

KeineFlags == [E |-> NoneZid, K |-> NoneZid, F |-> NoneZid,
               R |-> FALSE, L |-> FALSE, W |-> FALSE, D |-> FALSE]

ersatz_zid(ziel) == ziel.flags.E
kuppel_zid(ziel) == ziel.flags.K
fluegel_zid(ziel) == ziel.flags.F
richtungswechsel(ziel) == ziel.flags.R
lokumlauf(ziel) == ziel.flags.L
lokwechsel(ziel) == ziel.flags.W
durchfahrt(ziel) == ziel.flags.D

\* ZugZielPlanung.__init__ on top of FahrplanZeile.__init__
NeuesZiel ==
    [gleis |-> "", plan |-> "", an |-> NoneZeit, ab |-> NoneZeit, flags |-> KeineFlags,
     ersatzzug |-> NoneZid, kuppelzug |-> NoneZid, fluegelzug |-> NoneZid,
     einfahrt |-> FALSE, ausfahrt |-> FALSE,
     verspaetung_an |-> 0, verspaetung_ab |-> 0, mindestaufenthalt |-> 0,
     auto_korrektur |-> KeineKorrektur, fdl_korrektur |-> KeineKorrektur,
     passiert |-> FALSE]

\* ZugZielPlanung.assign_fahrplan_zeile
assign_fahrplan_zeile(zeile) ==
    [NeuesZiel EXCEPT !.gleis = zeile.gleis, !.plan = zeile.plan,
                      !.an = zeile.an, !.ab = zeile.ab, !.flags = zeile.flags]

\* ZugZielPlanung.update_fahrplan_zeile
update_fahrplan_zeile(ziel, zeile) == [ziel EXCEPT !.gleis = zeile.gleis]

\* ZugZielPlanung.ankunft_minute / abfahrt_minute, for stops that have the planned time
ankunft_minute(ziel) == time_to_minutes(ziel.an) + ziel.verspaetung_an
abfahrt_minute(ziel) == time_to_minutes(ziel.ab) + ziel.verspaetung_ab

----------------------------------------------------------------------------
(* ZugDetails *)

\* ZugDetailsPlanung.__init__ on top of ZugDetails.__init__
NeuerZug ==
    [zid |-> 0, von |-> "", nach |-> "", fahrplan |-> <<>>,
     gleis |-> "", plangleis |-> "", verspaetung |-> 0, amgleis |-> FALSE, sichtbar |-> FALSE,
     ziel_index |-> NoneIndex, stammzug |-> NoneZid,
     ausgefahren |-> FALSE, folgezuege_aufgeloest |-> FALSE, korrekturen_definiert |-> FALSE]

\* index of the first stop of a fahrplan with the given planned track, or NoneIndex
RECURSIVE PlanIndexAb(_, _, _)
PlanIndexAb(fahrplan, plan, i) ==
    IF i >= Len(fahrplan) THEN NoneIndex
    ELSE IF fahrplan[i + 1].plan = plan THEN i
    ELSE PlanIndexAb(fahrplan, plan, i + 1)

\* ZugDetails.find_fahrplan_index(plan=...)
find_fahrplan_index(zug, plan) == PlanIndexAb(zug.fahrplan, plan, 0)

----------------------------------------------------------------------------
(* Delay propagation.                                                       *)
(* The methods mutate objects reachable from Planung.zugliste and call one  *)
(* another recursively.  A call is an operator from the program state P at  *)
(* its entry to the state at its return:                                    *)
(*   P.zl       the train list,                                             *)
(*   P.fehler   "" or the exception that is unwinding the stack,            *)
(*   P.besucht  the trains zugverspaetung_korrigieren was entered for,      *)
(*   P.aufrufe  the number of zugverspaetung_korrigieren calls,             *)
(*   P.tiefe    the deepest nesting of zugverspaetung_korrigieren reached,  *)
(*   P.stapel   the calls of zugverspaetung_korrigieren on the stack: their *)
(*              arguments and the train list they were entered with.        *)
(* A call that is entered with the arguments and the train list of a call   *)
(* on the stack repeats that call and nests without end: python raises      *)
(* RecursionError at sys.getrecursionlimit(). `rest` is the number of       *)
(* nested calls that are still followed ("MaxTiefe" beyond).                *)

Programm(zl) ==
    [zl |-> zl, fehler |-> "", besucht |-> {}, aufrufe |-> 0, tiefe |-> 0, stapel |-> {}]

ZielVon(P, zid, i) == P.zl[zid].fahrplan[i + 1]
MitZiel(P, zid, i, ziel) == [P EXCEPT !.zl[zid].fahrplan[i + 1] = ziel]
Ausnahme(P, name) == [P EXCEPT !.fehler = name]

\* FesteVerspaetung.anwenden
\* FesteVerspaetung.anwenden that uses the override up
FesteVerspaetung_verbraucht(ziel, k) ==
    [ziel EXCEPT !.verspaetung_ab = k.verspaetung, !.fdl_korrektur = KeineKorrektur]

\* FesteVerspaetung.anwenden that does not let a train leave early
FesteVerspaetung_nicht_negativ(ziel, k) == [ziel EXCEPT !.verspaetung_ab = Max(k.verspaetung, 0)]

FesteVerspaetung_anwenden(ziel, k) == [ziel EXCEPT !.verspaetung_ab = k.verspaetung]

\* the dwell rule shared by the strategies:
\*   ankunft = plan_an + verspaetung_an
\*   aufenthalt = max(plan_ab - ankunft, mindestaufenthalt)
\*   abfahrt = ankunft + aufenthalt
Abfahrt(plan_an, plan_ab, verspaetung_an, mindestaufenthalt) ==
    LET ankunft == plan_an + verspaetung_an
        aufenthalt == Max(plan_ab - ankunft, mindestaufenthalt)
    IN  ankunft + aufenthalt

\* PlanmaessigeAbfahrt.anwenden without the dwell floor: departure on schedule whenever
\* the train has arrived by then, else straight on arrival
PlanmaessigeAbfahrt_ohne_Mindestaufenthalt(ziel) ==
    IF ziel.an = NoneZeit THEN ziel
    ELSE LET plan_an == time_to_minutes(ziel.an)
             plan_ab == IF ziel.ab # NoneZeit THEN time_to_minutes(ziel.ab)
                        ELSE plan_an + ziel.mindestaufenthalt
             abfahrt == Abfahrt(plan_an, plan_ab, ziel.verspaetung_an, 0)
         IN  [ziel EXCEPT !.verspaetung_ab = abfahrt - plan_ab]

\* PlanmaessigeAbfahrt.anwenden with a dwell floor that is one minute too long
PlanmaessigeAbfahrt_zu_lang(ziel) ==
    IF ziel.an = NoneZeit THEN ziel
    ELSE LET plan_an == time_to_minutes(ziel.an)
             plan_ab == IF ziel.ab # NoneZeit THEN time_to_minutes(ziel.ab)
                        ELSE plan_an + ziel.mindestaufenthalt
             abfahrt == Abfahrt(plan_an, plan_ab, ziel.verspaetung_an,
                                ziel.mindestaufenthalt + 1)
         IN  [ziel EXCEPT !.verspaetung_ab = abfahrt - plan_ab]

\* PlanmaessigeAbfahrt.anwenden without the wait for the planned departure: the train
\* leaves as soon as the minimum dwell has passed
PlanmaessigeAbfahrt_ohne_Planabfahrt(ziel) ==
    IF ziel.an = NoneZeit THEN ziel
    ELSE LET plan_an == time_to_minutes(ziel.an)
             plan_ab == IF ziel.ab # NoneZeit THEN time_to_minutes(ziel.ab)
                        ELSE plan_an + ziel.mindestaufenthalt
             abfahrt == plan_an + ziel.verspaetung_an + ziel.mindestaufenthalt
         IN  [ziel EXCEPT !.verspaetung_ab = abfahrt - plan_ab]

\* PlanmaessigeAbfahrt.anwenden
PlanmaessigeAbfahrt_anwenden(ziel) ==
    IF ziel.an = NoneZeit THEN ziel
    ELSE LET plan_an == time_to_minutes(ziel.an)
             plan_ab == IF ziel.ab # NoneZeit THEN time_to_minutes(ziel.ab)
                        ELSE plan_an + ziel.mindestaufenthalt
             abfahrt == Abfahrt(plan_an, plan_ab, ziel.verspaetung_an, ziel.mindestaufenthalt)
         IN  [ziel EXCEPT !.verspaetung_ab = abfahrt - plan_ab]

\* result of a strategy that may raise: the stop after the call and the exception
Gut(ziel) == [fehler |-> "", ziel |-> ziel]
Wirft(name, ziel) == [fehler |-> name, ziel |-> ziel]

\* variant of AnkunftAbwarten.anwenden that lets the train leave as planned, whatever
\* its own arrival and the arrival of the origin
AnkunftAbwarten_planmaessig(ziel, k, hat_ursprung, ursprung) ==
    Gut([ziel EXCEPT !.verspaetung_ab = 0])

\* variant of AnkunftAbwarten.anwenden that releases the train on the arrival of the
\* origin, without the extra wait
AnkunftAbwarten_ohne_Wartezeit(ziel, k, hat_ursprung, ursprung) ==
    IF ziel.ab = NoneZeit /\ ziel.an = NoneZeit THEN Wirft("TypeError", ziel)
    ELSE LET plan_ab == IF ziel.ab # NoneZeit THEN time_to_minutes(ziel.ab)
                        ELSE time_to_minutes(ziel.an) + ziel.mindestaufenthalt
             plan_an == IF ziel.an # NoneZeit THEN time_to_minutes(ziel.an) ELSE plan_ab
             ankunft == plan_an + ziel.verspaetung_an
             aufenthalt == Max(plan_ab - ankunft, ziel.mindestaufenthalt)
         IN  IF ~hat_ursprung \/ ursprung.an = NoneZeit THEN Wirft("AttributeError", ziel)
             ELSE LET anschluss_an == time_to_minutes(ursprung.an) + ursprung.verspaetung_an
                      abfahrt == Max(ankunft + aufenthalt, anschluss_an)
                  IN  Gut([ziel EXCEPT !.verspaetung_ab = abfahrt - plan_ab])

\* AnkunftAbwarten.anwenden.  `hat_ursprung`: self.ursprung is not None; `ursprung`
\* is then the origin stop.
AnkunftAbwarten_anwenden(ziel, k, hat_ursprung, ursprung) ==
    IF ziel.ab = NoneZeit /\ ziel.an = NoneZeit THEN Wirft("TypeError", ziel)
    ELSE LET plan_ab == IF ziel.ab # NoneZeit THEN time_to_minutes(ziel.ab)
                        ELSE time_to_minutes(ziel.an) + ziel.mindestaufenthalt
             plan_an == IF ziel.an # NoneZeit THEN time_to_minutes(ziel.an) ELSE plan_ab
             ankunft == plan_an + ziel.verspaetung_an
             aufenthalt == Max(plan_ab - ankunft, ziel.mindestaufenthalt)
         IN  IF ~hat_ursprung \/ ursprung.an = NoneZeit THEN Wirft("AttributeError", ziel)
             ELSE LET anschluss_an == time_to_minutes(ursprung.an) + ursprung.verspaetung_an
                      anschluss_ab == anschluss_an + k.wartezeit
                      abfahrt == Max(ankunft + aufenthalt, anschluss_ab)
                  IN  Gut([ziel EXCEPT !.verspaetung_ab = abfahrt - plan_ab])

\* AbfahrtAbwarten.anwenden
AbfahrtAbwarten_anwenden(ziel, k, hat_ursprung, ursprung) ==
    IF ziel.ab = NoneZeit /\ ziel.an = NoneZeit THEN Wirft("TypeError", ziel)
    ELSE LET plan_ab == IF ziel.ab # NoneZeit THEN time_to_minutes(ziel.ab)
                        ELSE time_to_minutes(ziel.an) + ziel.mindestaufenthalt
             plan_an == IF ziel.an # NoneZeit THEN time_to_minutes(ziel.an) ELSE plan_ab
             ankunft == plan_an + ziel.verspaetung_an
             aufenthalt == Max(plan_ab - ankunft, ziel.mindestaufenthalt)
         IN  IF ~hat_ursprung \/ ursprung.ab = NoneZeit THEN Wirft("AttributeError", ziel)
             ELSE LET anschluss_ab == time_to_minutes(ursprung.ab) + ursprung.verspaetung_ab
                                      + k.wartezeit
                      abfahrt == Max(ankunft + aufenthalt, anschluss_ab)
                  IN  Gut([ziel EXCEPT !.verspaetung_ab = abfahrt - plan_ab])

\* the collision avoidance with `if` in place of `while`
KuppelAusweichen_einmal(kuppel_an, plan_an, verspaetung_an) ==
    IF Abs(kuppel_an - (plan_an + verspaetung_an)) < KuppelAbstand
    THEN verspaetung_an + 1
    ELSE verspaetung_an

\* variant of the collision avoidance loop with a window of three minutes
RECURSIVE KuppelAusweichen_weit(_, _, _)
KuppelAusweichen_weit(kuppel_an, plan_an, verspaetung_an) ==
    IF Abs(kuppel_an - (plan_an + verspaetung_an)) < KuppelAbstand + 1
    THEN KuppelAusweichen_weit(kuppel_an, plan_an, verspaetung_an + 1)
    ELSE verspaetung_an

\* the collision avoidance loop of Kupplung.anwenden:
\*   while abs(kuppel_an - (plan_an + ziel.verspaetung_an)) < 2: ziel.verspaetung_an += 1
RECURSIVE KuppelAusweichen(_, _, _)
KuppelAusweichen(kuppel_an, plan_an, verspaetung_an) ==
    IF Abs(kuppel_an - (plan_an + verspaetung_an)) < KuppelAbstand
    THEN KuppelAusweichen(kuppel_an, plan_an, verspaetung_an + 1)
    ELSE verspaetung_an

RECURSIVE ZugverspaetungKorrigieren(_, _, _, _, _)
RECURSIVE Anwenden(_, _, _, _, _)
RECURSIVE ZielSchleife(_, _, _, _, _, _)

\* Ersatzzug.anwenden without `self.ersatzzug.verspaetung = ziel.verspaetung_ab`
Ersatzzug_ohne_Uebergabe(P, zid, i, rest) ==
    LET ziel == ZielVon(P, zid, i)
        ez == ziel.ersatzzug
    IN  IF ziel.an = NoneZeit THEN P
        ELSE
        LET plan_an == time_to_minutes(ziel.an)
            plan_ab ==
                IF ez # NoneZid /\ Len(P.zl[ez].fahrplan) > 0
                              /\ P.zl[ez].fahrplan[1].an # NoneZeit
                THEN time_to_minutes(P.zl[ez].fahrplan[1].an)
                ELSE IF ziel.ab # NoneZeit THEN time_to_minutes(ziel.ab)
                ELSE plan_an + ziel.mindestaufenthalt
            abfahrt == Abfahrt(plan_an, plan_ab, ziel.verspaetung_an, ziel.mindestaufenthalt)
            verspaetung_ab == abfahrt - plan_ab
            P1 == MitZiel(P, zid, i,
                      [ziel EXCEPT !.verspaetung_ab = verspaetung_ab,
                                   !.ab = minutes_to_time(abfahrt - verspaetung_ab)])
        IN  IF ez = NoneZid THEN P1
            ELSE ZugverspaetungKorrigieren(P1, ez, NoneIndex, NoneIndex, rest - 1)

\* variant that reaches the replacement train through one more nested propagation call
Ersatzzug_anwenden_verschachtelt(P, zid, i, rest) ==
    LET ziel == ZielVon(P, zid, i)
        ez == ziel.ersatzzug
    IN  IF ziel.an = NoneZeit THEN P
        ELSE
        LET plan_an == time_to_minutes(ziel.an)
            plan_ab ==
                IF ez # NoneZid /\ Len(P.zl[ez].fahrplan) > 0
                              /\ P.zl[ez].fahrplan[1].an # NoneZeit
                THEN time_to_minutes(P.zl[ez].fahrplan[1].an)
                ELSE IF ziel.ab # NoneZeit THEN time_to_minutes(ziel.ab)
                ELSE plan_an + ziel.mindestaufenthalt
            abfahrt == Abfahrt(plan_an, plan_ab, ziel.verspaetung_an, ziel.mindestaufenthalt)
            verspaetung_ab == abfahrt - plan_ab
            P1 == MitZiel(P, zid, i,
                      [ziel EXCEPT !.verspaetung_ab = verspaetung_ab,
                                   !.ab = minutes_to_time(abfahrt - verspaetung_ab)])
        IN  IF ez = NoneZid THEN P1
            ELSE ZugverspaetungKorrigieren(
                     [P1 EXCEPT !.zl[ez].verspaetung = verspaetung_ab],
                     ez, NoneIndex, NoneIndex, rest - 2)

\* Ersatzzug.anwenden
Ersatzzug_anwenden(P, zid, i, rest) ==
    LET ziel == ZielVon(P, zid, i)
        ez == ziel.ersatzzug
    IN  IF ziel.an = NoneZeit THEN P
        ELSE
        LET plan_an == time_to_minutes(ziel.an)
            plan_ab ==
                IF ez # NoneZid /\ Len(P.zl[ez].fahrplan) > 0
                              /\ P.zl[ez].fahrplan[1].an # NoneZeit
                THEN time_to_minutes(P.zl[ez].fahrplan[1].an)
                ELSE IF ziel.ab # NoneZeit THEN time_to_minutes(ziel.ab)
                ELSE plan_an + ziel.mindestaufenthalt
            abfahrt == Abfahrt(plan_an, plan_ab, ziel.verspaetung_an, ziel.mindestaufenthalt)
            verspaetung_ab == abfahrt - plan_ab
            P1 == MitZiel(P, zid, i,
                      [ziel EXCEPT !.verspaetung_ab = verspaetung_ab,
                                   !.ab = minutes_to_time(abfahrt - verspaetung_ab)])
        IN  IF ez = NoneZid THEN P1
            ELSE ZugverspaetungKorrigieren(
                     [P1 EXCEPT !.zl[ez].verspaetung = verspaetung_ab],
                     ez, NoneIndex, NoneIndex, rest - 1)

\* Kupplung.anwenden
Kupplung_anwenden(P, zid, i, rest) ==
    LET ziel == ZielVon(P, zid, i)
        kz == ziel.kuppelzug
        plan_an == time_to_minutes(ziel.an)
        plan_ab == IF ziel.ab # NoneZeit THEN time_to_minutes(ziel.ab)
                   ELSE plan_an + ziel.mindestaufenthalt
        \* the partner once more, after the stop has its delays
        Nochmals(P2) ==
            IF ZielVon(P2, zid, i).kuppelzug = NoneZid THEN P2
            ELSE ZugverspaetungKorrigieren(P2, ZielVon(P2, zid, i).kuppelzug,
                                           NoneIndex, NoneIndex, rest - 1)
        \* the delays of the stop, given the arrival of the partner
        Ausweichen(P1, ziel1, kuppel_an, verspaetung_an) ==
            Nochmals(MitZiel(P1, zid, i,
                [ziel1 EXCEPT
                    !.verspaetung_an = verspaetung_an,
                    !.verspaetung_ab =
                        Max(Abfahrt(plan_an, plan_ab, verspaetung_an, ziel1.mindestaufenthalt),
                            kuppel_an) - plan_ab]))
        Kuppeln(P1, kuppel_an) ==
            Ausweichen(P1, ZielVon(P1, zid, i), kuppel_an,
                       KuppelAusweichen(kuppel_an, plan_an, ZielVon(P1, zid, i).verspaetung_an))
        \* kuppel_ziel = kuppelzug.fahrplan[kuppel_index], its estimated arrival
        Kuppelziel_an(P1, kuppel_index) ==
            IF P1.fehler # "" THEN P1
            ELSE IF kz # NoneZid /\ kuppel_index = NoneIndex THEN Ausnahme(P1, "TypeError")
            ELSE Kuppeln(P1, IF kz = NoneZid \/ ZielVon(P1, kz, kuppel_index).an = NoneZeit
                             THEN 0
                             ELSE ankunft_minute(ZielVon(P1, kz, kuppel_index)))
        \* zuerst die verspaetung des kuppelnden zuges berechnen
        Zuerst(P1) ==
            Kuppelziel_an(P1, IF kz = NoneZid \/ P1.fehler # "" THEN NoneIndex
                              ELSE find_fahrplan_index(P1.zl[kz], ziel.plan))
    IN  IF ziel.an = NoneZeit THEN P
        ELSE Zuerst(IF kz = NoneZid THEN P
                    ELSE ZugverspaetungKorrigieren(P, kz, NoneIndex, NoneIndex, rest - 1))

\* Fluegelung.anwenden without handing the arrival delay to the split-off train
Fluegelung_ohne_Uebergabe(P, zid, i, rest) ==
    LET ziel == ZielVon(P, zid, i)
        fz == ziel.fluegelzug
    IN  IF ziel.an = NoneZeit THEN P
        ELSE
        LET plan_an == time_to_minutes(ziel.an)
            plan_ab == IF ziel.ab # NoneZeit THEN time_to_minutes(ziel.ab)
                       ELSE plan_an + ziel.mindestaufenthalt
            abfahrt == Abfahrt(plan_an, plan_ab, ziel.verspaetung_an, ziel.mindestaufenthalt)
            P1 == MitZiel(P, zid, i, [ziel EXCEPT !.verspaetung_ab = abfahrt - plan_ab])
        IN  IF fz = NoneZid THEN P1
            ELSE IF Len(P1.zl[fz].fahrplan) = 0
            THEN Ausnahme(P1, "IndexError")
            ELSE ZugverspaetungKorrigieren(P1, fz, NoneIndex, NoneIndex, rest - 1)

\* Fluegelung.anwenden
Fluegelung_anwenden(P, zid, i, rest) ==
    LET ziel == ZielVon(P, zid, i)
        fz == ziel.fluegelzug
    IN  IF ziel.an = NoneZeit THEN P
        ELSE
        LET plan_an == time_to_minutes(ziel.an)
            plan_ab == IF ziel.ab # NoneZeit THEN time_to_minutes(ziel.ab)
                       ELSE plan_an + ziel.mindestaufenthalt
            abfahrt == Abfahrt(plan_an, plan_ab, ziel.verspaetung_an, ziel.mindestaufenthalt)
            P1 == MitZiel(P, zid, i, [ziel EXCEPT !.verspaetung_ab = abfahrt - plan_ab])
        IN  IF fz = NoneZid THEN P1
            ELSE IF Len(P1.zl[fz].fahrplan) = 0
            THEN Ausnahme([P1 EXCEPT !.zl[fz].verspaetung = ziel.verspaetung_an], "IndexError")
            ELSE ZugverspaetungKorrigieren(
                     [P1 EXCEPT !.zl[fz].verspaetung = ziel.verspaetung_an,
                                !.zl[fz].fahrplan[1].verspaetung_an = ziel.verspaetung_an],
                     fz, NoneIndex, NoneIndex, rest - 1)

\* the stop a strategy's ursprung refers to, in the state P
HatUrsprung(k) == k.ursprung # NoneZiel
Ursprung(P, k) ==
    IF HatUrsprung(k) THEN ZielVon(P, k.ursprung[1], k.ursprung[2]) ELSE NeuesZiel

\* `ziel.auto_korrektur.anwenden(zug, ziel)` / `ziel.fdl_korrektur.anwenden(zug, ziel)`
\* inside `try ... except AttributeError: pass` (zugverspaetung_korrigieren): an empty
\* slot and an AttributeError raised by the strategy leave the stop as it is, any other
\* exception unwinds.
Anwenden(P, zid, i, k, rest) ==
    LET ziel == ZielVon(P, zid, i)
        Ergebnis(r) == IF r.fehler = "" THEN MitZiel(P, zid, i, r.ziel)
                       ELSE IF r.fehler = "AttributeError" THEN P
                       ELSE Ausnahme(P, r.fehler)
    IN  CASE k.art = "None" -> P
          [] k.art = "FesteVerspaetung" -> MitZiel(P, zid, i, FesteVerspaetung_anwenden(ziel, k))
          [] k.art = "PlanmaessigeAbfahrt" -> MitZiel(P, zid, i, PlanmaessigeAbfahrt_anwenden(ziel))
          [] k.art = "AnkunftAbwarten" ->
                Ergebnis(AnkunftAbwarten_anwenden(ziel, k, HatUrsprung(k), Ursprung(P, k)))
          [] k.art = "AbfahrtAbwarten" ->
                Ergebnis(AbfahrtAbwarten_anwenden(ziel, k, HatUrsprung(k), Ursprung(P, k)))
          [] k.art = "Ersatzzug" -> Ersatzzug_anwenden(P, zid, i, rest)
          [] k.art = "Kupplung" -> Kupplung_anwenden(P, zid, i, rest)
          [] k.art = "Fluegelung" -> Fluegelung_anwenden(P, zid, i, rest)

\* variant of the loop of zugverspaetung_korrigieren that seeds every stop with the
\* delay the call started with instead of the departure delay of the stop before
RECURSIVE ZielSchleife_ohne_Uebertrag(_, _, _, _, _, _)
ZielSchleife_ohne_Uebertrag(P, zid, i, ende, verspaetung, rest) ==
    IF P.fehler # "" \/ i >= ende THEN P
    ELSE LET P1 == MitZiel(P, zid, i,
                       [ZielVon(P, zid, i) EXCEPT !.verspaetung_ab = verspaetung,
                                                  !.verspaetung_an = verspaetung])
             AutoKorrektur(Q) == Anwenden(Q, zid, i, ZielVon(Q, zid, i).auto_korrektur, rest)
             FdlKorrektur(Q) ==
                 IF Q.fehler # "" THEN Q
                 ELSE Anwenden(Q, zid, i, ZielVon(Q, zid, i).fdl_korrektur, rest)
             Naechstes(Q) ==
                 IF Q.fehler # "" THEN Q
                 ELSE ZielSchleife_ohne_Uebertrag(Q, zid, i + 1, ende, verspaetung, rest)
         IN  Naechstes(FdlKorrektur(AutoKorrektur(P1)))

\* variant of the loop of zugverspaetung_korrigieren that ignores the end of the range
\* and runs to the last stop of the train
RECURSIVE ZielSchleife_bis_Ende(_, _, _, _, _, _)
ZielSchleife_bis_Ende(P, zid, i, ende, verspaetung, rest) ==
    IF P.fehler # "" \/ i >= Len(P.zl[zid].fahrplan) THEN P
    ELSE LET P1 == MitZiel(P, zid, i,
                       [ZielVon(P, zid, i) EXCEPT !.verspaetung_ab = verspaetung,
                                                  !.verspaetung_an = verspaetung])
             AutoKorrektur(Q) == Anwenden(Q, zid, i, ZielVon(Q, zid, i).auto_korrektur, rest)
             FdlKorrektur(Q) ==
                 IF Q.fehler # "" THEN Q
                 ELSE Anwenden(Q, zid, i, ZielVon(Q, zid, i).fdl_korrektur, rest)
             Naechstes(Q) ==
                 IF Q.fehler # "" THEN Q
                 ELSE ZielSchleife_bis_Ende(Q, zid, i + 1, ende,
                                            ZielVon(Q, zid, i).verspaetung_ab, rest)
         IN  Naechstes(FdlKorrektur(AutoKorrektur(P1)))

\* the loop `for ziel in zug.fahrplan[sl]` of zugverspaetung_korrigieren, from index i
ZielSchleife(P, zid, i, ende, verspaetung, rest) ==
    IF P.fehler # "" \/ i >= ende THEN P
    ELSE LET \* ziel.verspaetung_ab = ziel.verspaetung_an = verspaetung
             P1 == MitZiel(P, zid, i,
                       [ZielVon(P, zid, i) EXCEPT !.verspaetung_ab = verspaetung,
                                                  !.verspaetung_an = verspaetung])
             AutoKorrektur(Q) == Anwenden(Q, zid, i, ZielVon(Q, zid, i).auto_korrektur, rest)
             FdlKorrektur(Q) ==
                 IF Q.fehler # "" THEN Q
                 ELSE Anwenden(Q, zid, i, ZielVon(Q, zid, i).fdl_korrektur, rest)
             \* verspaetung = ziel.verspaetung_ab, next stop
             Naechstes(Q) ==
                 IF Q.fehler # "" THEN Q
                 ELSE ZielSchleife(Q, zid, i + 1, ende, ZielVon(Q, zid, i).verspaetung_ab, rest)
         IN  Naechstes(FdlKorrektur(AutoKorrektur(P1)))

\* Planung.zugverspaetung_korrigieren(zug, start, stop); NoneIndex for an omitted argument
ZugverspaetungKorrigieren(P, zid, start, stop, rest) ==
    IF P.fehler # "" THEN P
    ELSE IF <<zid, start, stop, P.zl>> \in P.stapel THEN Ausnahme(P, "RecursionError")
    ELSE IF rest <= 0 THEN Ausnahme(P, "MaxTiefe")
    ELSE
    LET zug == P.zl[zid]
        verspaetung == zug.verspaetung
        laenge == Len(zug.fahrplan)
        start1 == IF start # NoneIndex THEN start
                  ELSE IF zug.ziel_index # NoneIndex THEN zug.ziel_index ELSE 0
        ende == IF stop = NoneIndex \/ stop > laenge THEN laenge ELSE stop
        \* aktuelle verspaetung uebernehmen
        P1 == IF start1 >= 1 /\ start1 - 1 < laenge
              THEN [P EXCEPT !.zl[zid].fahrplan[start1].verspaetung_ab = verspaetung]
              ELSE P
        P2 == IF laenge > 0 /\ P1.zl[zid].fahrplan[1].einfahrt
              THEN [P1 EXCEPT !.zl[zid].fahrplan[1].verspaetung_an =
                                   P1.zl[zid].fahrplan[1].verspaetung_ab]
              ELSE P1
        P3 == [P2 EXCEPT !.besucht = @ \cup {zid}, !.aufrufe = @ + 1,
                         !.tiefe = Max(@, MaxTiefe - rest + 1),
                         !.stapel = @ \cup {<<zid, start, stop, P.zl>>}]
        Zurueck(R) == [R EXCEPT !.stapel = P.stapel]
    IN  Zurueck(ZielSchleife(P3, zid, start1, ende, verspaetung, rest))

\* Planung.verspaetungen_korrigieren: the trains without stammzug, in key order
RECURSIVE VerspaetungenSchleife(_, _)
VerspaetungenSchleife(P, zids) ==
    IF zids = <<>> \/ P.fehler # "" THEN P
    ELSE VerspaetungenSchleife(
             ZugverspaetungKorrigieren(P, Head(zids), NoneIndex, NoneIndex, MaxTiefe),
             Tail(zids))

VerspaetungenKorrigieren(zl, keys) ==
    VerspaetungenSchleife(Programm(zl),
                          SelectSeq(keys, LAMBDA z : zl[z].stammzug = NoneZid))

----------------------------------------------------------------------------
(* Strategy assignment *)

\* ZugDetails.find_fahrplanzeile(plan=...): index of the stop, NoneIndex for None
find_fahrplanzeile(zug, plan) == PlanIndexAb(zug.fahrplan, plan, 0)

\* variant of ziel_korrekturen_definieren that gives an entry, exit or through-pass
\* stop the turnaround time of its marker instead of no dwell
ziel_korrekturen_definieren_mit_Wendezeit(zl, zid, i) ==
    LET ziel == zl[zid].fahrplan[i + 1]
        hier == <<zid, i>>
        mindest == IF richtungswechsel(ziel) THEN MindestRichtungswechsel
                   ELSE IF lokumlauf(ziel) THEN MindestLokumlauf
                   ELSE IF lokwechsel(ziel) THEN MindestLokwechsel
                   ELSE ziel.mindestaufenthalt
    IN  IF ziel.einfahrt \/ ziel.ausfahrt \/ durchfahrt(ziel)
        THEN [zl |-> [zl EXCEPT ![zid].fahrplan[i + 1].mindestaufenthalt = mindest],
              result |-> TRUE]
        ELSE IF ersatz_zid(ziel) # NoneZid
        THEN LET zl1 == [zl EXCEPT ![zid].fahrplan[i + 1].mindestaufenthalt = mindest,
                                   ![zid].fahrplan[i + 1].auto_korrektur = Ersatzzug]
                 ez == ziel.ersatzzug
             IN  IF ez # NoneZid /\ Len(zl1[ez].fahrplan) > 0
                 THEN [zl |-> [zl1 EXCEPT ![ez].fahrplan[1].auto_korrektur =
                                              AnkunftAbwarten(hier, 0)],
                       result |-> TRUE]
                 ELSE [zl |-> zl1, result |-> FALSE]
        ELSE IF kuppel_zid(ziel) # NoneZid
        THEN LET zl1 == [zl EXCEPT ![zid].fahrplan[i + 1].mindestaufenthalt = mindest,
                                   ![zid].fahrplan[i + 1].auto_korrektur = Kupplung]
                 kz == ziel.kuppelzug
                 kuppel_ziel == IF kz = NoneZid THEN NoneIndex
                                ELSE find_fahrplanzeile(zl1[kz], ziel.plan)
             IN  IF kuppel_ziel # NoneIndex
                 THEN [zl |-> [zl1 EXCEPT ![kz].fahrplan[kuppel_ziel + 1].auto_korrektur =
                                              AnkunftAbwarten(hier, 0)],
                       result |-> TRUE]
                 ELSE [zl |-> zl1, result |-> FALSE]
        ELSE IF fluegel_zid(ziel) # NoneZid
        THEN LET zl1 == [zl EXCEPT ![zid].fahrplan[i + 1].mindestaufenthalt = MindestFluegelung,
                                   ![zid].fahrplan[i + 1].auto_korrektur = Fluegelung]
                 fz == ziel.fluegelzug
             IN  IF fz # NoneZid /\ Len(zl1[fz].fahrplan) > 0
                 THEN [zl |-> [zl1 EXCEPT ![fz].fahrplan[1].auto_korrektur =
                                              AbfahrtAbwarten(hier, WartezeitFluegelung)],
                       result |-> TRUE]
                 ELSE [zl |-> zl1, result |-> FALSE]
        ELSE [zl |-> [zl EXCEPT ![zid].fahrplan[i + 1].mindestaufenthalt = mindest,
                                ![zid].fahrplan[i + 1].auto_korrektur =
                                    IF @.art = "None" THEN PlanmaessigeAbfahrt ELSE @],
              result |-> TRUE]

\* variant of ziel_korrekturen_definieren that looks at the coupling marker before the
\* replacement marker
ziel_korrekturen_definieren_Kupplung_zuerst(zl, zid, i) ==
    LET ziel == zl[zid].fahrplan[i + 1]
        hier == <<zid, i>>
        mindest == IF richtungswechsel(ziel) THEN MindestRichtungswechsel
                   ELSE IF lokumlauf(ziel) THEN MindestLokumlauf
                   ELSE IF lokwechsel(ziel) THEN MindestLokwechsel
                   ELSE ziel.mindestaufenthalt
    IN  IF ziel.einfahrt \/ ziel.ausfahrt \/ durchfahrt(ziel)
        THEN [zl |-> [zl EXCEPT ![zid].fahrplan[i + 1].mindestaufenthalt = 0],
              result |-> TRUE]
        ELSE IF ersatz_zid(ziel) # NoneZid /\ kuppel_zid(ziel) = NoneZid
        THEN LET zl1 == [zl EXCEPT ![zid].fahrplan[i + 1].mindestaufenthalt = mindest,
                                   ![zid].fahrplan[i + 1].auto_korrektur = Ersatzzug]
                 ez == ziel.ersatzzug
             IN  IF ez # NoneZid /\ Len(zl1[ez].fahrplan) > 0
                 THEN [zl |-> [zl1 EXCEPT ![ez].fahrplan[1].auto_korrektur =
                                              AnkunftAbwarten(hier, 0)],
                       result |-> TRUE]
                 ELSE [zl |-> zl1, result |-> FALSE]
        ELSE IF kuppel_zid(ziel) # NoneZid
        THEN LET zl1 == [zl EXCEPT ![zid].fahrplan[i + 1].mindestaufenthalt = mindest,
                                   ![zid].fahrplan[i + 1].auto_korrektur = Kupplung]
                 kz == ziel.kuppelzug
                 kuppel_ziel == IF kz = NoneZid THEN NoneIndex
                                ELSE find_fahrplanzeile(zl1[kz], ziel.plan)
             IN  IF kuppel_ziel # NoneIndex
                 THEN [zl |-> [zl1 EXCEPT ![kz].fahrplan[kuppel_ziel + 1].auto_korrektur =
                                              AnkunftAbwarten(hier, 0)],
                       result |-> TRUE]
                 ELSE [zl |-> zl1, result |-> FALSE]
        ELSE IF fluegel_zid(ziel) # NoneZid
        THEN LET zl1 == [zl EXCEPT ![zid].fahrplan[i + 1].mindestaufenthalt = MindestFluegelung,
                                   ![zid].fahrplan[i + 1].auto_korrektur = Fluegelung]
                 fz == ziel.fluegelzug
             IN  IF fz # NoneZid /\ Len(zl1[fz].fahrplan) > 0
                 THEN [zl |-> [zl1 EXCEPT ![fz].fahrplan[1].auto_korrektur =
                                              AbfahrtAbwarten(hier, WartezeitFluegelung)],
                       result |-> TRUE]
                 ELSE [zl |-> zl1, result |-> FALSE]
        ELSE [zl |-> [zl EXCEPT ![zid].fahrplan[i + 1].mindestaufenthalt = mindest,
                                ![zid].fahrplan[i + 1].auto_korrektur =
                                    IF @.art = "None" THEN PlanmaessigeAbfahrt ELSE @],
              result |-> TRUE]

\* Planung.ziel_korrekturen_definieren(ziel) for ziel = zl[zid].fahrplan[i]:
\* the train list after the call and the returned flag
ziel_korrekturen_definieren(zl, zid, i) ==
    LET ziel == zl[zid].fahrplan[i + 1]
        hier == <<zid, i>>
        mindest == IF richtungswechsel(ziel) THEN MindestRichtungswechsel
                   ELSE IF lokumlauf(ziel) THEN MindestLokumlauf
                   ELSE IF lokwechsel(ziel) THEN MindestLokwechsel
                   ELSE ziel.mindestaufenthalt
    IN  IF ziel.einfahrt \/ ziel.ausfahrt \/ durchfahrt(ziel)
        THEN [zl |-> [zl EXCEPT ![zid].fahrplan[i + 1].mindestaufenthalt = 0],
              result |-> TRUE]
        ELSE IF ersatz_zid(ziel) # NoneZid
        THEN LET zl1 == [zl EXCEPT ![zid].fahrplan[i + 1].mindestaufenthalt = mindest,
                                   ![zid].fahrplan[i + 1].auto_korrektur = Ersatzzug]
                 ez == ziel.ersatzzug
             IN  IF ez # NoneZid /\ Len(zl1[ez].fahrplan) > 0
                 THEN [zl |-> [zl1 EXCEPT ![ez].fahrplan[1].auto_korrektur =
                                              AnkunftAbwarten(hier, 0)],
                       result |-> TRUE]
                 ELSE [zl |-> zl1, result |-> FALSE]
        ELSE IF kuppel_zid(ziel) # NoneZid
        THEN LET zl1 == [zl EXCEPT ![zid].fahrplan[i + 1].mindestaufenthalt = mindest,
                                   ![zid].fahrplan[i + 1].auto_korrektur = Kupplung]
                 kz == ziel.kuppelzug
                 kuppel_ziel == IF kz = NoneZid THEN NoneIndex
                                ELSE find_fahrplanzeile(zl1[kz], ziel.plan)
             IN  IF kuppel_ziel # NoneIndex
                 THEN [zl |-> [zl1 EXCEPT ![kz].fahrplan[kuppel_ziel + 1].auto_korrektur =
                                              AnkunftAbwarten(hier, 0)],
                       result |-> TRUE]
                 ELSE [zl |-> zl1, result |-> FALSE]
        ELSE IF fluegel_zid(ziel) # NoneZid
        THEN LET zl1 == [zl EXCEPT ![zid].fahrplan[i + 1].mindestaufenthalt = MindestFluegelung,
                                   ![zid].fahrplan[i + 1].auto_korrektur = Fluegelung]
                 fz == ziel.fluegelzug
             IN  IF fz # NoneZid /\ Len(zl1[fz].fahrplan) > 0
                 THEN [zl |-> [zl1 EXCEPT ![fz].fahrplan[1].auto_korrektur =
                                              AbfahrtAbwarten(hier, WartezeitFluegelung)],
                       result |-> TRUE]
                 ELSE [zl |-> zl1, result |-> FALSE]
        ELSE [zl |-> [zl EXCEPT ![zid].fahrplan[i + 1].mindestaufenthalt = mindest,
                                ![zid].fahrplan[i + 1].auto_korrektur =
                                    IF @.art = "None" THEN PlanmaessigeAbfahrt ELSE @],
              result |-> TRUE]

\* Planung.zug_korrekturen_definieren(zug), from stop index i
RECURSIVE ZielKorrekturenAb(_, _, _, _)
ZielKorrekturenAb(zl, zid, i, result) ==
    IF i >= Len(zl[zid].fahrplan) THEN [zl |-> zl, result |-> result]
    ELSE LET r == ziel_korrekturen_definieren(zl, zid, i)
         IN  ZielKorrekturenAb(r.zl, zid, i + 1, result /\ r.result)

zug_korrekturen_definieren(zl, zid) == ZielKorrekturenAb(zl, zid, 0, TRUE)

\* Planung.korrekturen_definieren: the trains in key order
RECURSIVE korrekturen_definieren(_, _)
korrekturen_definieren(zl, zids) ==
    IF zids = <<>> THEN zl
    ELSE LET zid == Head(zids)
         IN  IF zl[zid].korrekturen_definiert THEN korrekturen_definieren(zl, Tail(zids))
             ELSE LET r == zug_korrekturen_definieren(zl, zid)
                  IN  korrekturen_definieren(
                          [r.zl EXCEPT ![zid].korrekturen_definiert =
                                           r.zl[zid].folgezuege_aufgeloest /\ r.result],
                          Tail(zids))

----------------------------------------------------------------------------
(* Link resolution *)

\* one of the three `if zid2 := planzeile.xxx_zid():` blocks of folgezuege_aufloesen for
\* the stop zl[zid].fahrplan[i]; feld is the reference the block sets.
\* L = [zl, zids, aufgeloest]: train list, work queue, the local folgezuege_aufgeloest.
FolgezugVerlinken_ohne_Vermerk(L, zid, i, zid2, feld) ==
    IF zid2 = NoneZid THEN L
    ELSE IF zid2 \notin DOMAIN L.zl
    THEN [L EXCEPT !.zl[zid].fahrplan[i + 1][feld] = NoneZid]
    ELSE [L EXCEPT !.zl = [[@ EXCEPT ![zid].fahrplan[i + 1][feld] = zid2]
                              EXCEPT ![zid2].stammzug = zid],
                   !.zids = Append(@, zid2)]

\* variant of the link step that notes the parent the wrong way round: the referring
\* train gets the referenced train as its stammzug
FolgezugVerlinken_verkehrt(L, zid, i, zid2, feld) ==
    IF zid2 = NoneZid THEN L
    ELSE IF zid2 \notin DOMAIN L.zl
    THEN [L EXCEPT !.zl[zid].fahrplan[i + 1][feld] = NoneZid, !.aufgeloest = FALSE]
    ELSE [L EXCEPT !.zl = [[@ EXCEPT ![zid].fahrplan[i + 1][feld] = zid2]
                              EXCEPT ![zid].stammzug = zid2],
                   !.zids = Append(@, zid2)]

FolgezugVerlinken(L, zid, i, zid2, feld) ==
    IF zid2 = NoneZid THEN L
    ELSE IF zid2 \notin DOMAIN L.zl
    THEN [L EXCEPT !.zl[zid].fahrplan[i + 1][feld] = NoneZid, !.aufgeloest = FALSE]
    ELSE [L EXCEPT !.zl = [[@ EXCEPT ![zid].fahrplan[i + 1][feld] = zid2]
                              EXCEPT ![zid2].stammzug = zid],
                   !.zids = Append(@, zid2)]

\* the loop `for planzeile in zug.fahrplan` of folgezuege_aufloesen, from index i
RECURSIVE PlanzeilenAufloesen(_, _, _)
PlanzeilenAufloesen(L, zid, i) ==
    IF i >= Len(L.zl[zid].fahrplan) THEN L
    ELSE LET planzeile == L.zl[zid].fahrplan[i + 1]
             L1 == FolgezugVerlinken(L, zid, i, ersatz_zid(planzeile), "ersatzzug")
             L2 == FolgezugVerlinken(L1, zid, i, fluegel_zid(planzeile), "fluegelzug")
             L3 == FolgezugVerlinken(L2, zid, i, kuppel_zid(planzeile), "kuppelzug")
         IN  PlanzeilenAufloesen(L3, zid, i + 1)

\* the loop `while zids` of folgezuege_aufloesen. `gesehen` holds the states (train
\* list, work queue) the loop head has been in: the loop body is a function of that
\* state, so a state that comes back comes back for ever and the loop does not end
\* ("Endlosschleife"). `rest` bounds the passes that are followed ("MaxDurchlauf").
RECURSIVE AufloesenSchleife(_, _, _, _)
AufloesenSchleife(zl, zids, rest, gesehen) ==
    IF zids = <<>> THEN [zl |-> zl, fehler |-> ""]
    ELSE IF <<zl, zids>> \in gesehen THEN [zl |-> zl, fehler |-> "Endlosschleife"]
    ELSE IF rest <= 0 THEN [zl |-> zl, fehler |-> "MaxDurchlauf"]
    ELSE LET zid == Head(zids)
             g == gesehen \cup {<<zl, zids>>}
         IN  IF zid \notin DOMAIN zl \/ zl[zid].folgezuege_aufgeloest
             THEN AufloesenSchleife(zl, Tail(zids), rest - 1, g)
             ELSE LET L == PlanzeilenAufloesen(
                               [zl |-> zl, zids |-> Tail(zids), aufgeloest |-> TRUE], zid, 0)
                  IN  AufloesenSchleife(
                          [L.zl EXCEPT ![zid].folgezuege_aufgeloest = L.aufgeloest],
                          L.zids, rest - 1, g)

\* Planung.folgezuege_aufloesen
folgezuege_aufloesen(zl, keys) == AufloesenSchleife(zl, keys, MaxDurchlauf, {})

----------------------------------------------------------------------------
(* Snapshot ingestion *)

\* the track names of the layout and the texts "Gleis <name>" the simulator reports in
\* von/nach for a train that starts or ends at a track of the layout
Gleise == {"A", "B", "C"}
GleisTexte == {"Gleis A", "Gleis B", "Gleis C"}

\* str.startswith("Gleis")
startswith_Gleis(text) == text \in GleisTexte

\* str.replace("Gleis ", "")
replace_Gleis(text) ==
    CASE text = "Gleis A" -> "A"
      [] text = "Gleis B" -> "B"
      [] text = "Gleis C" -> "C"
      [] OTHER -> text

\* ZugDetailsPlanung.assign_zug_details(zug) on a fresh ZugDetailsPlanung
assign_zug_details(zug) ==
    LET von == replace_Gleis(zug.von)
        nach == replace_Gleis(zug.nach)
        einfahrt ==
            IF von # "" /\ ~startswith_Gleis(zug.von)
            THEN <<[NeuesZiel EXCEPT
                      !.plan = von, !.gleis = von, !.einfahrt = TRUE,
                      !.an = IF Len(zug.fahrplan) > 0 THEN zug.fahrplan[1].an ELSE NoneZeit,
                      !.ab = IF Len(zug.fahrplan) > 0 THEN zug.fahrplan[1].an ELSE NoneZeit]>>
            ELSE <<>>
        ziele == [j \in 1..Len(zug.fahrplan) |-> assign_fahrplan_zeile(zug.fahrplan[j])]
        ausfahrt ==
            IF nach # "" /\ ~startswith_Gleis(zug.nach)
            THEN <<[NeuesZiel EXCEPT
                      !.plan = nach, !.gleis = nach, !.ausfahrt = TRUE,
                      !.an = IF Len(zug.fahrplan) > 0
                             THEN zug.fahrplan[Len(zug.fahrplan)].ab ELSE NoneZeit,
                      !.ab = IF Len(zug.fahrplan) > 0
                             THEN zug.fahrplan[Len(zug.fahrplan)].ab ELSE NoneZeit]>>
            ELSE <<>>
        fahrplan == einfahrt \o ziele \o ausfahrt
        index == PlanIndexAb(fahrplan, zug.plangleis, 0)
    IN  [NeuerZug EXCEPT
            !.zid = zug.zid, !.von = von, !.nach = nach, !.fahrplan = fahrplan,
            !.ziel_index = IF index # NoneIndex THEN index
                           ELSE IF Len(zug.fahrplan) > 0 /\ ~zug.sichtbar THEN 0
                           ELSE NoneIndex]

\* the loop `for zeile in zug.fahrplan` of update_zug_details: the track of the first
\* persisted stop with the same planned track follows the feed
RECURSIVE GleiseNachfuehren(_, _, _)
GleiseNachfuehren(fahrplan, zeilen, j) ==
    IF j > Len(zeilen) THEN fahrplan
    ELSE LET index == PlanIndexAb(fahrplan, zeilen[j].plan, 0)
         IN  GleiseNachfuehren(
                 IF index = NoneIndex THEN fahrplan
                 ELSE [fahrplan EXCEPT ![index + 1] = update_fahrplan_zeile(@, zeilen[j])],
                 zeilen, j + 1)

\* update_zug_details rebuilding the stop sequence from the rows of the feed
update_zug_details_neu_aufgebaut(self, zug) ==
    LET leer == Len(zug.fahrplan) = 0
        fahrplan == [j \in 1..Len(zug.fahrplan) |-> assign_fahrplan_zeile(zug.fahrplan[j])]
        index == PlanIndexAb(fahrplan, zug.plangleis, 0)
    IN  [self EXCEPT
            !.gleis = IF leer THEN self.nach ELSE zug.gleis,
            !.plangleis = IF leer THEN self.nach ELSE zug.plangleis,
            !.verspaetung = zug.verspaetung,
            !.amgleis = zug.amgleis,
            !.sichtbar = zug.sichtbar,
            !.fahrplan = fahrplan,
            !.ziel_index = IF index # NoneIndex THEN index ELSE @]

\* ZugDetailsPlanung.update_zug_details(zug).  Its last loop sets passiert on the rows
\* of the feed object zug, which the planning module does not keep.
update_zug_details(self, zug) ==
    LET leer == Len(zug.fahrplan) = 0
        fahrplan == GleiseNachfuehren(self.fahrplan, zug.fahrplan, 1)
        index == PlanIndexAb(fahrplan, zug.plangleis, 0)
    IN  [self EXCEPT
            !.gleis = IF leer THEN self.nach ELSE zug.gleis,
            !.plangleis = IF leer THEN self.nach ELSE zug.plangleis,
            !.verspaetung = zug.verspaetung,
            !.amgleis = zug.amgleis,
            !.sichtbar = zug.sichtbar,
            !.fahrplan = fahrplan,
            !.ziel_index = IF index # NoneIndex THEN index ELSE @]

\* adding a key to a function
Mit(f, k, v) == [x \in DOMAIN f \cup {k} |-> IF x = k THEN v ELSE f[x]]

\* the loop `for zug in zuege` of zuege_uebernehmen.  Z = [zl, keys, verarbeitete_zuege]
RECURSIVE UebernehmenSchleife(_, _)
UebernehmenSchleife(Z, zuege) ==
    IF zuege = <<>> THEN Z
    ELSE LET zug == Head(zuege)
         IN  IF zug.zid \notin DOMAIN Z.zl
             THEN \* neuer zug
                  LET zug_planung == update_zug_details(assign_zug_details(zug), zug)
                      zl1 == zug_korrekturen_definieren(
                                 Mit(Z.zl, zug.zid, zug_planung), zug.zid).zl
                  IN  UebernehmenSchleife(
                          [zl |-> zl1, keys |-> Append(Z.keys, zug.zid),
                           verarbeitete_zuege |-> Z.verarbeitete_zuege \ {zug.zid}],
                          Tail(zuege))
             ELSE \* bekannter zug
                  UebernehmenSchleife(
                      [Z EXCEPT !.zl[zug.zid] = update_zug_details(@, zug),
                                !.verarbeitete_zuege = @ \ {zug.zid}],
                      Tail(zuege))

\* withdrawal that forgets the position of the train
Ausfahren_ohne_Position(zug) ==
    IF zug.sichtbar
    THEN [zug EXCEPT !.sichtbar = FALSE, !.amgleis = FALSE, !.gleis = "", !.plangleis = "",
                     !.ausgefahren = TRUE, !.ziel_index = NoneIndex]
    ELSE zug

\* withdrawal that does not set the mark
Ausfahren_ohne_Marke(zug) ==
    IF zug.sichtbar
    THEN [zug EXCEPT !.sichtbar = FALSE, !.amgleis = FALSE, !.gleis = "", !.plangleis = ""]
    ELSE zug

\* the loop `for zid in verarbeitete_zuege` of zuege_uebernehmen
Ausfahren(zug) ==
    IF zug.sichtbar
    THEN [zug EXCEPT !.sichtbar = FALSE, !.amgleis = FALSE, !.gleis = "", !.plangleis = "",
                     !.ausgefahren = TRUE]
    ELSE zug

\* zuege_uebernehmen deleting the trains that are missing in the feed
zuege_uebernehmen_loeschend(zl, keys, zuege) ==
    LET Definieren(A, keys1) ==
            IF A.fehler # "" THEN [zl |-> A.zl, keys |-> keys1, fehler |-> A.fehler]
            ELSE [zl |-> korrekturen_definieren(A.zl, keys1), keys |-> keys1, fehler |-> ""]
        Aufloesen(zl1, keys1) == Definieren(folgezuege_aufloesen(zl1, keys1), keys1)
        Loeschen(Z) ==
            Aufloesen([zid \in DOMAIN Z.zl \ Z.verarbeitete_zuege |-> Z.zl[zid]],
                      SelectSeq(Z.keys, LAMBDA zid : zid \notin Z.verarbeitete_zuege))
    IN  Loeschen(UebernehmenSchleife(
                     [zl |-> zl, keys |-> keys, verarbeitete_zuege |-> DOMAIN zl], zuege))

\* Planung.zuege_uebernehmen(zuege): train list, key order and exception after the call
zuege_uebernehmen(zl, keys, zuege) ==
    LET \* self.korrekturen_definieren()
        Definieren(A, keys1) ==
            IF A.fehler # "" THEN [zl |-> A.zl, keys |-> keys1, fehler |-> A.fehler]
            ELSE [zl |-> korrekturen_definieren(A.zl, keys1), keys |-> keys1, fehler |-> ""]
        \* the loop over verarbeitete_zuege, then self.folgezuege_aufloesen()
        Markieren(Z) ==
            Definieren(
                folgezuege_aufloesen(
                    [zid \in DOMAIN Z.zl |->
                        IF zid \in Z.verarbeitete_zuege THEN Ausfahren(Z.zl[zid])
                        ELSE Z.zl[zid]],
                    Z.keys),
                Z.keys)
    IN  Markieren(UebernehmenSchleife(
                      [zl |-> zl, keys |-> keys, verarbeitete_zuege |-> DOMAIN zl], zuege))

\* Planung.ereignis_uebernehmen(ereignis)
ereignis_uebernehmen(zl, ereignis) ==
    IF ereignis.zid \notin DOMAIN zl THEN zl
    ELSE IF ereignis.art = "xxx"
    THEN [zl EXCEPT ![ereignis.zid].sichtbar = FALSE, ![ereignis.zid].amgleis = FALSE,
                    ![ereignis.zid].gleis = "", ![ereignis.zid].plangleis = ""]
    ELSE zl

----------------------------------------------------------------------------
(* The simulator: timetables (welt) and what the feed reports (sim).         *)
(* welt[zid] = [von, nach, fahrplan, verspaetungen, maxpos, lagen]: fahrplan *)
(* is a sequence of FahrplanZeile [gleis, plan, an, ab, flags]; the other    *)
(* fields describe the scenario: the delays the simulator reports for the    *)
(* train, the number of stops it leaves behind, and the situations (lage)    *)
(* it gets into.                                                             *)
(* sim[zid] = [lage, pos, verspaetung]: the train is not yet in the feed     *)
(* ("fern"), listed but not visible ("angekuendigt"), visible and running    *)
(* ("faehrt"), visible at a platform ("steht"), or no longer in the feed     *)
(* ("weg"); pos is the number of rows the feed has dropped from the head of  *)
(* the train's fahrplan.                                                     *)

Zeile(plan, an, ab, flags) == [gleis |-> plan, plan |-> plan, an |-> an, ab |-> ab, flags |-> flags]
Stammdaten(von, nach, fahrplan, verspaetungen, maxpos, lagen) ==
    [von |-> von, nach |-> nach, fahrplan |-> fahrplan,
     verspaetungen |-> verspaetungen, maxpos |-> maxpos, lagen |-> lagen]

\* every situation of a listed train / a train that stays visible for the scenario
AlleLagen == {"angekuendigt", "faehrt", "steht", "weg"}
Sichtbar == {"faehrt", "steht"}

FlagE(zid) == [KeineFlags EXCEPT !.E = zid]
FlagK(zid) == [KeineFlags EXCEPT !.K = zid]
FlagF(zid) == [KeineFlags EXCEPT !.F = zid]
FlagR == [KeineFlags EXCEPT !.R = TRUE]
FlagL == [KeineFlags EXCEPT !.L = TRUE]
FlagW == [KeineFlags EXCEPT !.W = TRUE]
FlagD == [KeineFlags EXCEPT !.D = TRUE]

Verspaetungen == 0..MaxVerspaetung

Fern == [lage |-> "fern", pos |-> 0, verspaetung |-> 0]

ImFeed(s) == s.lage \in {"angekuendigt", "faehrt", "steht"}

\* what one train can do between two snapshots
Schritte(s, daten) ==
    IF ~ImFeed(s) THEN {}
    ELSE {t \in
            {[Fern EXCEPT !.lage = "weg"]}
            \cup {[s EXCEPT !.verspaetung = v] : v \in daten.verspaetungen \ {s.verspaetung}}
            \cup (IF s.lage = "angekuendigt" THEN {[s EXCEPT !.lage = "faehrt"]} ELSE {})
            \cup (IF s.lage = "faehrt" /\ s.pos < Len(daten.fahrplan) /\ s.pos < daten.maxpos
                  THEN {[s EXCEPT !.lage = "steht"]} ELSE {})
            \cup (IF s.lage = "steht" THEN {[s EXCEPT !.lage = "faehrt", !.pos = @ + 1]} ELSE {})
          : t.lage \in daten.lagen}

\* how a train enters the feed
Eintritte(daten) ==
    {[lage |-> l, pos |-> 0, verspaetung |-> v] :
        l \in {"angekuendigt", "faehrt"} \cap daten.lagen, v \in daten.verspaetungen}

\* the simulator states the next snapshot can be taken in: any set of new trains has
\* entered the feed, and at most one listed train has moved on
SimNachfolger(w, s) ==
    LET ferne == {z \in DOMAIN s : s[z].lage = "fern"}
        Neu == {n \in [ferne -> UNION {Eintritte(w[z]) : z \in ferne} \cup {Fern}] :
                   \A z \in ferne : n[z] \in Eintritte(w[z]) \cup {Fern}}
        MitNeuen(n) == [z \in DOMAIN s |-> IF z \in ferne THEN n[z] ELSE s[z]]
    IN  {MitNeuen(n) : n \in Neu}
        \cup UNION {{[MitNeuen(n) EXCEPT ![z] = t] : t \in Schritte(s[z], w[z])} :
                        <<n, z>> \in Neu \X (DOMAIN s \ ferne)}

\* the ZugDetails object the feed holds for train zid
FeedZug(w, s, zid) ==
    LET rest == SubSeq(w[zid].fahrplan, s[zid].pos + 1, Len(w[zid].fahrplan))
        plangleis == IF rest = <<>> THEN "" ELSE rest[1].plan
    IN  [zid |-> zid, von |-> w[zid].von, nach |-> w[zid].nach, fahrplan |-> rest,
         gleis |-> IF rest = <<>> THEN "" ELSE rest[1].gleis, plangleis |-> plangleis,
         verspaetung |-> s[zid].verspaetung,
         sichtbar |-> s[zid].lage \in {"faehrt", "steht"},
         amgleis |-> s[zid].lage = "steht"]

\* the train ids in ascending / descending order
RECURSIVE Aufsteigend(_)
Aufsteigend(Z) ==
    IF Z = {} THEN <<>>
    ELSE LET m == CHOOSE x \in Z : \A y \in Z : x <= y IN <<m>> \o Aufsteigend(Z \ {m})
RECURSIVE Absteigend(_)
Absteigend(Z) ==
    IF Z = {} THEN <<>>
    ELSE LET m == CHOOSE x \in Z : \A y \in Z : x >= y IN <<m>> \o Absteigend(Z \ {m})

\* PluginClient.zugliste.values(): the trains of the feed, in the order `folge`
Snapshot(w, s, folge) ==
    LET da == SelectSeq(folge, LAMBDA z : ImFeed(s[z]))
    IN  [j \in 1..Len(da) |-> FeedZug(w, s, da[j])]

----------------------------------------------------------------------------
(* Actions: the calls of the Planung methods *)

KeinAufruf ==
    [op |-> "", zids |-> {}, neu |-> {}, zid |-> NoneZid, start |-> NoneIndex,
     stop |-> NoneIndex, besucht |-> {}, aufrufe |-> 0, tiefe |-> 0]

\* Planung.__init__, the simulator before any train is listed
InitWelt(Welten) ==
    /\ welt \in Welten
    /\ sim = [z \in DOMAIN welt |-> Fern]
    /\ zugliste = << >>
    /\ schluessel = << >>
    /\ fehler = ""
    /\ aufruf = KeinAufruf

\* Planung.zuege_uebernehmen(client.zugliste.values())
ZuegeUebernehmen ==
    /\ fehler = ""
    /\ \E s \in SimNachfolger(welt, sim) :
       \E folge \in {Aufsteigend(DOMAIN welt), Absteigend(DOMAIN welt)} :
       \E zuege \in {Snapshot(welt, s, folge)} :
       \E r \in {zuege_uebernehmen(zugliste, schluessel, zuege)} :
              /\ sim' = s
              /\ zugliste' = r.zl
              /\ schluessel' = r.keys
              /\ fehler' = r.fehler
              /\ aufruf' = [KeinAufruf EXCEPT !.op = "zuege_uebernehmen",
                                              !.zids = {zuege[j].zid : j \in 1..Len(zuege)},
                                              !.neu = DOMAIN r.zl \ DOMAIN zugliste]
    /\ UNCHANGED welt

\* Planung.verspaetungen_korrigieren()
VerspaetungenKorrigierenAufruf ==
    /\ fehler = ""
    /\ DOMAIN zugliste # {}
    /\ \E P \in {VerspaetungenKorrigieren(zugliste, schluessel)} :
           /\ zugliste' = P.zl
           /\ fehler' = P.fehler
           /\ aufruf' = [KeinAufruf EXCEPT !.op = "verspaetungen_korrigieren",
                                           !.besucht = P.besucht, !.aufrufe = P.aufrufe,
                                           !.tiefe = P.tiefe]
    /\ UNCHANGED <<welt, sim, schluessel>>

\* Planung.zugverspaetung_korrigieren(zug) for one train of the list
ZugverspaetungKorrigierenAufruf ==
    /\ fehler = ""
    /\ \E zid \in DOMAIN zugliste :
       \E P \in {ZugverspaetungKorrigieren(Programm(zugliste), zid, NoneIndex, NoneIndex,
                                           MaxTiefe)} :
              /\ zugliste' = P.zl
              /\ fehler' = P.fehler
              /\ aufruf' = [KeinAufruf EXCEPT !.op = "zugverspaetung_korrigieren",
                                              !.zid = zid,
                                              !.besucht = P.besucht, !.aufrufe = P.aufrufe,
                                              !.tiefe = P.tiefe]
    /\ UNCHANGED <<welt, sim, schluessel>>

\* Planung.zugverspaetung_korrigieren(zug, start, stop) with both arguments given
ZugverspaetungKorrigierenBereich ==
    /\ fehler = ""
    /\ \E zid \in DOMAIN zugliste :
       \E start \in 0..Len(zugliste[zid].fahrplan) :
       \E stop \in start..Len(zugliste[zid].fahrplan) :
       \E P \in {ZugverspaetungKorrigieren(Programm(zugliste), zid, start, stop, MaxTiefe)} :
              /\ zugliste' = P.zl
              /\ fehler' = P.fehler
              /\ aufruf' = [KeinAufruf EXCEPT !.op = "zugverspaetung_korrigieren",
                                              !.zid = zid, !.start = start, !.stop = stop,
                                              !.besucht = P.besucht, !.aufrufe = P.aufrufe,
                                              !.tiefe = P.tiefe]
    /\ UNCHANGED <<welt, sim, schluessel>>

\* Planung.folgezuege_aufloesen()
FolgezuegeAufloesenAufruf ==
    /\ fehler = ""
    /\ DOMAIN zugliste # {}
    /\ \E r \in {folgezuege_aufloesen(zugliste, schluessel)} :
           /\ zugliste' = r.zl
           /\ fehler' = r.fehler
    /\ aufruf' = [KeinAufruf EXCEPT !.op = "folgezuege_aufloesen"]
    /\ UNCHANGED <<welt, sim, schluessel>>

\* Planung.korrekturen_definieren()
KorrekturenDefinierenAufruf ==
    /\ fehler = ""
    /\ DOMAIN zugliste # {}
    /\ zugliste' = korrekturen_definieren(zugliste, schluessel)
    /\ aufruf' = [KeinAufruf EXCEPT !.op = "korrekturen_definieren"]
    /\ UNCHANGED <<welt, sim, schluessel, fehler>>

\* the event kinds of the simulator, and the kind ereignis_uebernehmen reacts to
Ereignisarten == {"einfahrt", "ausfahrt", "xxx"}

\* Planung.ereignis_uebernehmen(ereignis)
EreignisUebernehmen ==
    /\ fehler = ""
    /\ \E zid \in DOMAIN welt, art \in Ereignisarten :
          /\ zugliste' = ereignis_uebernehmen(zugliste, [zid |-> zid, art |-> art])
          /\ aufruf' = [KeinAufruf EXCEPT !.op = "ereignis_uebernehmen", !.zid = zid]
    /\ UNCHANGED <<welt, sim, schluessel, fehler>>

Next ==
    \/ ZuegeUebernehmen
    \/ VerspaetungenKorrigierenAufruf
    \/ ZugverspaetungKorrigierenAufruf
    \/ FolgezuegeAufloesenAufruf
    \/ KorrekturenDefinierenAufruf
    \/ EreignisUebernehmen

----------------------------------------------------------------------------
(* Timetables *)

\* planned dwell times of the parametric timetables range over 0 .. MaxAufenthalt
MaxAufenthalt == 1

Zeiten == 0..MaxAufenthalt

\* one train from the entry Ost over A to its terminus at track B; the stop at A has the
\* given planned dwell and flags
WeltEinzel(aufenthalt, flags, verspaetungen) ==
    1 :> Stammdaten("Ost", "Gleis B",
                    <<Zeile("A", <<9, 58>>, minutes_to_time(598 + aufenthalt), flags),
                      Zeile("B", <<10, 5>>, NoneZeit, KeineFlags)>>,
                    verspaetungen, 1, Sichtbar)

WeltenEinzel ==
    {WeltEinzel(a, f, (-1)..MaxVerspaetung) :
        a \in Zeiten \cup {3}, f \in {KeineFlags, FlagR, FlagW}}
    \cup {WeltEinzel(5, FlagR, {0, 10})}

\* train 1 ends at B and is replaced by train 2, which is planned to start `abstand`
\* minutes after the planned arrival of train 1
WeltErsatz(abstand, flags) ==
    1 :> Stammdaten("Ost", "Gleis B",
                    <<Zeile("A", <<9, 50>>, <<9, 51>>, KeineFlags),
                      Zeile("B", <<9, 58>>, NoneZeit, [flags EXCEPT !.E = 2])>>,
                    Verspaetungen, 1, Sichtbar)
    @@ 2 :> Stammdaten("Gleis B", "West",
                       <<Zeile("B", minutes_to_time(598 + abstand),
                                    minutes_to_time(599 + abstand), KeineFlags),
                         Zeile("C", <<10, 10>>, <<10, 11>>, KeineFlags)>>,
                       {0}, 0, {"angekuendigt"})

WeltenErsatz == {WeltErsatz(a, f) : a \in Zeiten, f \in {KeineFlags, FlagR}}

\* train 1 couples at B onto train 2, which is planned to arrive there `versatz`
\* minutes after the planned arrival of train 1 and goes on to C
WeltKupplung(versatz, aufenthalt) ==
    1 :> Stammdaten("Ost", "Gleis B",
                    <<Zeile("B", <<9, 59>>, minutes_to_time(599 + aufenthalt), FlagK(2))>>,
                    Verspaetungen, 0, Sichtbar)
    @@ 2 :> Stammdaten("Nord", "West",
                       <<Zeile("B", minutes_to_time(599 + versatz), <<10, 3>>, KeineFlags),
                         Zeile("C", <<10, 10>>, <<10, 11>>, KeineFlags)>>,
                       {0, 1}, 0, Sichtbar)

WeltenKupplung == {WeltKupplung(v, a) : v \in Zeiten, a \in {0, 3}}

\* train 1 splits at A; the split-off train 2 starts there
WeltFluegel(aufenthalt) ==
    1 :> Stammdaten("Ost", "West",
                    <<Zeile("A", <<9, 58>>, minutes_to_time(598 + aufenthalt), FlagF(2)),
                      Zeile("B", <<10, 5>>, <<10, 6>>, KeineFlags)>>,
                    Verspaetungen, 1, Sichtbar)
    @@ 2 :> Stammdaten("Gleis A", "Nord",
                       <<Zeile("A", <<9, 58>>, minutes_to_time(600 + aufenthalt), KeineFlags)>>,
                       {0}, 0, {"angekuendigt"})

WeltenFluegel == {WeltFluegel(a) : a \in Zeiten}

\* train 3 is the replacement of train 2 and the coupling partner of train 1
WeltRaute ==
    1 :> Stammdaten("Ost", "Gleis B",
                    <<Zeile("B", <<10, 1>>, <<10, 4>>, FlagK(3))>>, {0}, 0, Sichtbar)
    @@ 2 :> Stammdaten("Nord", "Gleis B",
                       <<Zeile("B", <<9, 58>>, NoneZeit, FlagE(3))>>, Verspaetungen, 0, Sichtbar)
    @@ 3 :> Stammdaten("Gleis B", "West",
                       <<Zeile("B", <<9, 59>>, <<10, 4>>, KeineFlags)>>, {0}, 0, {"angekuendigt"})

\* train 1 ends at A without planned departure and splits there; the split-off train 2
\* reverses at A with a planned dwell of one minute
WeltFluegelEnde ==
    1 :> Stammdaten("Ost", "Gleis A",
                    <<Zeile("A", <<9, 58>>, NoneZeit, FlagF(2))>>, Verspaetungen, 0, Sichtbar)
    @@ 2 :> Stammdaten("Gleis A", "Nord",
                       <<Zeile("A", <<9, 58>>, <<9, 59>>, FlagR)>>, {0}, 0, {"angekuendigt"})

\* two short trains, the first replaced by the second, both running to their end
WeltKlein ==
    1 :> Stammdaten("Ost", "Gleis A",
                    <<Zeile("A", <<9, 58>>, NoneZeit, FlagE(2))>>, {0, 1}, 1, AlleLagen)
    @@ 2 :> Stammdaten("Gleis A", "West",
                       <<Zeile("A", <<9, 59>>, <<10, 1>>, KeineFlags)>>,
                       {0}, 0, {"angekuendigt", "faehrt", "weg"})

----------------------------------------------------------------------------
(* Specifications *)

\* the update cycle: a snapshot is ingested, the delays are propagated
NextZyklus ==
    \/ ZuegeUebernehmen
    \/ VerspaetungenKorrigierenAufruf

\* a train whose stop at A names the train itself as its replacement, and the train
\* `fehlend` (none for 0) as its coupling partner
WeltSelbst(fehlend) ==
    1 :> Stammdaten("Ost", "West",
                    <<Zeile("A", <<9, 58>>, <<9, 59>>, [KeineFlags EXCEPT !.E = 1, !.K = fehlend]),
                      Zeile("B", <<10, 5>>, <<10, 6>>, KeineFlags)>>,
                    Verspaetungen, 1, Sichtbar)

\* the id of a train that is in no timetable
Fehlend == 9

\* two trains whose markers of kind `art` at B name each other; both name the train
\* `fehlend` (none for 0) with the other marker
WeltZyklus(art, fehlend) ==
    LET Marke(zid) == IF art = "E" THEN [KeineFlags EXCEPT !.E = zid, !.K = fehlend]
                      ELSE [KeineFlags EXCEPT !.K = zid, !.E = fehlend]
    IN  1 :> Stammdaten("Ost", "West",
                        <<Zeile("B", <<9, 58>>, <<9, 59>>, Marke(2))>>, Verspaetungen, 0, Sichtbar)
        @@ 2 :> Stammdaten("Nord", "West",
                           <<Zeile("B", <<9, 59>>, <<10, 1>>, Marke(1))>>, {0, 1}, 0, Sichtbar)

WeltenZyklus ==
    {WeltSelbst(f) : f \in {0, Fehlend}}
    \cup {WeltZyklus(a, f) : a \in {"E", "K"}, f \in {0, Fehlend}}

\* the update cycle and direct propagation of single trains
NextZug ==
    \/ ZuegeUebernehmen
    \/ VerspaetungenKorrigierenAufruf
    \/ ZugverspaetungKorrigierenAufruf

\* the update cycle and propagation of single trains over a given range of stops
NextBereich ==
    \/ ZuegeUebernehmen
    \/ VerspaetungenKorrigierenAufruf
    \/ ZugverspaetungKorrigierenBereich

\* every method of Planung, on a small timetable
Init == InitWelt({WeltKlein})
Spec == Init /\ [][Next]_vars

\* single trains with a parametric stop
InitEinzel == InitWelt(WeltenEinzel)
SpecEinzel == InitEinzel /\ [][NextZyklus]_vars

\* replacement chains
InitErsatz == InitWelt(WeltenErsatz)
SpecErsatz == InitErsatz /\ [][NextZug]_vars

\* couplings
InitKupplung == InitWelt(WeltenKupplung)
SpecKupplung == InitKupplung /\ [][NextZyklus]_vars

\* all link kinds
InitLinks ==
    InitWelt(WeltenErsatz \cup WeltenKupplung \cup WeltenFluegel
             \cup {WeltRaute, WeltFluegelEnde})
SpecLinks == InitLinks /\ [][NextZyklus]_vars

\* malformed timetables: markers that name the own train or each other
InitZyklus == InitWelt(WeltenZyklus)
SpecZyklus == InitZyklus /\ [][NextZug]_vars

----------------------------------------------------------------------------
(* Properties *)

\* the stops of the train list, as <<zid, index>>
Ziele == UNION {{<<zid, i>> : i \in 0..(Len(zugliste[zid].fahrplan) - 1)} : zid \in DOMAIN zugliste}
Halt(z) == zugliste[z[1]].fahrplan[z[2] + 1]

\* the last call was a propagation and it returned
Korrigiert ==
    /\ fehler = ""
    /\ aufruf.op \in {"verspaetungen_korrigieren", "zugverspaetung_korrigieren"}

\* the index a propagation of the train starts at
StartIndex(zug) == IF zug.ziel_index # NoneIndex THEN zug.ziel_index ELSE 0

\* the stop was in the range of a zugverspaetung_korrigieren call of the last propagation
ImBereich(z) == z[1] \in aufruf.besucht /\ z[2] >= StartIndex(zugliste[z[1]])

HatZeiten(ziel) == ziel.an # NoneZeit /\ ziel.ab # NoneZeit
Planaufenthalt(ziel) == time_to_minutes(ziel.ab) - time_to_minutes(ziel.an)

\* the stops PlanmaessigeAbfahrt alone has just computed the departure delay of
NurPlanmaessig(z) ==
    /\ ImBereich(z)
    /\ Halt(z).auto_korrektur.art = "PlanmaessigeAbfahrt"
    /\ Halt(z).fdl_korrektur.art = "None"

\* C3: for a stop with both planned times PlanmaessigeAbfahrt sets
\* verspaetung_ab = (plan_an + verspaetung_an
\*                   + max(plan_ab - (plan_an + verspaetung_an), mindestaufenthalt)) - plan_ab;
\* arrival delay 0 with planned dwell >= minimum dwell gives departure delay 0, and
\* planned dwell 5, minimum dwell 2, arrival delay 10 gives departure delay 7.
C3_PlanmaessigeAbfahrt ==
    Korrigiert =>
        \A z \in Ziele :
            NurPlanmaessig(z) /\ HatZeiten(Halt(z)) =>
                LET ziel == Halt(z)
                    plan_an == ziel.an[1] * 60 + ziel.an[2]
                    plan_ab == ziel.ab[1] * 60 + ziel.ab[2]
                    ankunft == plan_an + ziel.verspaetung_an
                    bleibt == IF plan_ab - ankunft >= ziel.mindestaufenthalt
                              THEN plan_ab - ankunft ELSE ziel.mindestaufenthalt
                IN  /\ ziel.verspaetung_ab = (ankunft + bleibt) - plan_ab
                    /\ (ziel.verspaetung_an = 0 /\ plan_ab - plan_an >= ziel.mindestaufenthalt
                            => ziel.verspaetung_ab = 0)
                    /\ (plan_ab - plan_an = 5 /\ ziel.mindestaufenthalt = 2
                            /\ ziel.verspaetung_an = 10 => ziel.verspaetung_ab = 7)

\* a stop with planned dwell 5 and minimum dwell 2 was propagated with arrival delay 10
C3_Witness ==
    /\ Korrigiert
    /\ \E z \in Ziele :
          /\ NurPlanmaessig(z) /\ HatZeiten(Halt(z))
          /\ Planaufenthalt(Halt(z)) = 5 /\ Halt(z).mindestaufenthalt = 2
          /\ Halt(z).verspaetung_an = 10 /\ Halt(z).verspaetung_ab = 7

\* C4 as stated: PlanmaessigeAbfahrt never increases the delay, verspaetung_ab <=
\* verspaetung_an for every stop it handles.
C4_NieErhoeht ==
    Korrigiert =>
        \A z \in Ziele :
            NurPlanmaessig(z) /\ Halt(z).an # NoneZeit =>
                Halt(z).verspaetung_ab <= Halt(z).verspaetung_an

\* C4 amended: PlanmaessigeAbfahrt does not increase the delay of a stop whose arrival
\* delay is not negative and whose planned dwell is at least its minimum dwell (a stop
\* without planned departure counts as planned with the minimum dwell).
C4_NieErhoeht_Amended ==
    Korrigiert =>
        \A z \in Ziele :
            /\ NurPlanmaessig(z) /\ Halt(z).an # NoneZeit
            /\ Halt(z).verspaetung_an >= 0
            /\ (Halt(z).ab # NoneZeit => Planaufenthalt(Halt(z)) >= Halt(z).mindestaufenthalt)
            => Halt(z).verspaetung_ab <= Halt(z).verspaetung_an

\* a delayed stop with planned dwell above its minimum dwell was propagated and lost delay
C4_Witness ==
    /\ Korrigiert
    /\ \E z \in Ziele :
          /\ NurPlanmaessig(z) /\ HatZeiten(Halt(z))
          /\ Halt(z).verspaetung_an > 0
          /\ Planaufenthalt(Halt(z)) > Halt(z).mindestaufenthalt
          /\ Halt(z).verspaetung_ab < Halt(z).verspaetung_an

\* the last call was a full propagation pass and it returned
PassBeendet == fehler = "" /\ aufruf.op = "verspaetungen_korrigieren"

\* estimated departure >= estimated arrival + minimum dwell
HaeltMindestaufenthalt(ziel) ==
    time_to_minutes(ziel.ab) + ziel.verspaetung_ab
        >= time_to_minutes(ziel.an) + ziel.verspaetung_an + ziel.mindestaufenthalt

\* C1: after a full propagation pass every stop in the propagated range without
\* dispatcher override has planned departure + verspaetung_ab >= planned arrival +
\* verspaetung_an + mindestaufenthalt, whichever automatic strategy it carries.
C1_Mindestaufenthalt ==
    PassBeendet =>
        \A z \in Ziele :
            ImBereich(z) /\ Halt(z).fdl_korrektur.art = "None" /\ HatZeiten(Halt(z))
                => HaeltMindestaufenthalt(Halt(z))

\* a pass has propagated a delayed stop whose planned dwell is below its minimum dwell
\* and that carries a cross-train strategy
C1_Witness ==
    /\ PassBeendet
    /\ \E z \in Ziele :
          /\ ImBereich(z) /\ HatZeiten(Halt(z))
          /\ Halt(z).auto_korrektur.art \in {"Ersatzzug", "Kupplung", "Fluegelung",
                                            "AnkunftAbwarten", "AbfahrtAbwarten"}
          /\ Halt(z).verspaetung_an > 0
          /\ Halt(z).verspaetung_ab > Halt(z).verspaetung_an

\* the delay values of a train list: every train's verspaetung and every stop's
\* verspaetung_an and verspaetung_ab
Delays(zl) ==
    [zid \in DOMAIN zl |->
        [verspaetung |-> zl[zid].verspaetung,
         ziele |-> [j \in 1..Len(zl[zid].fahrplan) |->
                      <<zl[zid].fahrplan[j].verspaetung_an, zl[zid].fahrplan[j].verspaetung_ab>>]]]

\* C2: propagation is idempotent: a second verspaetungen_korrigieren right after the
\* first, with no ingestion and no override change in between, returns and leaves every
\* stop's verspaetung_an and verspaetung_ab and every train's verspaetung as they are.
C2_Idempotent ==
    PassBeendet =>
        \A P \in {VerspaetungenKorrigieren(zugliste, schluessel)} :
            P.fehler = "" /\ Delays(P.zl) = Delays(zugliste)

\* the arrival delay the propagation carried into the stop: the train's delay at the
\* start of the range, the departure delay of the stop before otherwise
Uebernommen(z) ==
    IF z[2] = StartIndex(zugliste[z[1]]) THEN zugliste[z[1]].verspaetung
    ELSE zugliste[z[1]].fahrplan[z[2]].verspaetung_ab

\* the partner stop of a coupling stop: the first stop of the partner at the same
\* planned track
Kuppelziel(z) == <<Halt(z).kuppelzug, find_fahrplan_index(zugliste[Halt(z).kuppelzug], Halt(z).plan)>>

\* a propagated coupling stop with planned arrival whose partner is linked and has a
\* stop with planned arrival at the same track
Gekuppelt(z) ==
    /\ ImBereich(z)
    /\ Halt(z).auto_korrektur.art = "Kupplung"
    /\ Halt(z).an # NoneZeit
    /\ Halt(z).kuppelzug # NoneZid
    /\ Kuppelziel(z)[2] # NoneIndex
    /\ Halt(Kuppelziel(z)).an # NoneZeit

ErsatzVon(z) ==
    /\ ImBereich(z)
    /\ Halt(z).auto_korrektur.art = "Ersatzzug"
    /\ Halt(z).ersatzzug # NoneZid
    /\ zugliste[z[1]].verspaetung > 0
    /\ Len(zugliste[Halt(z).ersatzzug].fahrplan) > 0

Verweise(zid) ==
    {y \in Ziele : zid \in {Halt(y).ersatzzug, Halt(y).kuppelzug, Halt(y).fluegelzug}}

Uebernommen_Aufruf == fehler = "" /\ aufruf.op = "zuege_uebernehmen"

\* the planned stops of a train, in order
Planfolge(zug) ==
    [j \in 1..Len(zug.fahrplan) |->
        <<zug.fahrplan[j].plan, zug.fahrplan[j].an, zug.fahrplan[j].ab, zug.fahrplan[j].flags,
          zug.fahrplan[j].einfahrt, zug.fahrplan[j].ausfahrt>>]

\* the delays of the stops of a train, in order
Verspaetungsfolge(zug) ==
    [j \in 1..Len(zug.fahrplan) |->
        <<zug.fahrplan[j].verspaetung_an, zug.fahrplan[j].verspaetung_ab>>]

\* C7: across zuege_uebernehmen the stop sequence of a train that is already in the
\* collection keeps every stop, its length and its order, also when the feed's
\* fahrplan of the train no longer has the stop or is empty.
C7_FahrplanBleibt ==
    [][aufruf'.op = "zuege_uebernehmen" =>
          \A zid \in DOMAIN zugliste :
              /\ zid \in DOMAIN zugliste'
              /\ Planfolge(zugliste'[zid]) = Planfolge(zugliste[zid])]_vars

\* a known train was ingested again whose feed has dropped every row of its fahrplan
C7_Witness ==
    /\ Uebernommen_Aufruf
    /\ \E zid \in aufruf.zids :
          /\ sim[zid].pos > 0
          /\ sim[zid].pos = Len(welt[zid].fahrplan)
          /\ Len(zugliste[zid].fahrplan) > Len(welt[zid].fahrplan)

C9_Ausgefahren ==
    Uebernommen_Aufruf =>
        \A zid \in DOMAIN zugliste \ aufruf.zids :
            /\ zugliste[zid].ausgefahren /\ ~zugliste[zid].sichtbar
            /\ zugliste[zid].gleis = "" /\ zugliste[zid].plangleis = ""

\* C9 amended: after zuege_uebernehmen every train that was in the collection before
\* the call, was visible before the call and is missing in the snapshot is marked
\* withdrawn (ausgefahren, not sichtbar, gleis and plangleis empty), and a train once
\* marked stays marked; a missing train that was not visible keeps its fields.
C9_Ausgefahren_Amended ==
    [][aufruf'.op = "zuege_uebernehmen" =>
          \A zid \in DOMAIN zugliste \ aufruf'.zids :
              /\ (zugliste[zid].sichtbar \/ zugliste[zid].ausgefahren =>
                     /\ zugliste'[zid].ausgefahren /\ ~zugliste'[zid].sichtbar
                     /\ zugliste'[zid].gleis = "" /\ zugliste'[zid].plangleis = "")
              /\ (~zugliste[zid].sichtbar =>
                     /\ zugliste'[zid].ausgefahren = zugliste[zid].ausgefahren
                     /\ zugliste'[zid].gleis = zugliste[zid].gleis
                     /\ zugliste'[zid].plangleis = zugliste[zid].plangleis)]_vars

\* a train that has left the feed is marked while another train is still listed
C9_Witness ==
    /\ Uebernommen_Aufruf
    /\ aufruf.zids # {}
    /\ \E zid \in DOMAIN zugliste \ aufruf.zids :
          sim[zid].lage = "weg" /\ zugliste[zid].ausgefahren /\ zugliste[zid].gleis = ""

\* C10: the set of train ids of zugliste never shrinks, whichever of zuege_uebernehmen,
\* folgezuege_aufloesen, korrekturen_definieren, verspaetungen_korrigieren,
\* zugverspaetung_korrigieren and ereignis_uebernehmen is called.
C10_ZuglisteWaechst == [][DOMAIN zugliste \subseteq DOMAIN zugliste']_vars

\* every train of the timetable has been ingested and has left the feed, and the last
\* snapshot was empty
C10_Witness ==
    /\ Uebernommen_Aufruf
    /\ aufruf.zids = {}
    /\ DOMAIN zugliste = DOMAIN welt
    /\ \A zid \in DOMAIN zugliste : sim[zid].lage = "weg"

\* C11: one call of zuege_uebernehmen merges the snapshot, resolves the links, assigns
\* the strategies and then propagates the delays of every train without stammzug, so
\* that on return the stops' delays reflect the delays of the snapshot: the stop a
\* listed train without stammzug stands before has the train's reported delay as
\* verspaetung_an, and a propagation pass right after the call changes no delay.
C11_Propagiert ==
    Uebernommen_Aufruf =>
        /\ \A zid \in aufruf.zids :
              /\ zugliste[zid].stammzug = NoneZid
              /\ StartIndex(zugliste[zid]) < Len(zugliste[zid].fahrplan)
              => zugliste[zid].fahrplan[StartIndex(zugliste[zid]) + 1].verspaetung_an
                     = zugliste[zid].verspaetung
        /\ \A P \in {VerspaetungenKorrigieren(zugliste, schluessel)} :
              P.fehler = "" => Delays(P.zl) = Delays(zugliste)

\* C12: folgezuege_aufloesen terminates for every train collection, also when links
\* form a cycle and trains of the cycle name ids that are not in the collection: no
\* call (zuege_uebernehmen ends with one) gets into a work queue loop that never ends.
C12_Terminiert == fehler # "Endlosschleife"

\* C13: a stop whose replacement, coupling or split marker names the id of its own
\* train is treated as having no link: the stop's ersatzzug / kuppelzug / fluegelzug
\* reference stays empty and the train does not become its own stammzug.
C13_Selbstbezug ==
    /\ \A z \in Ziele :
          /\ ersatz_zid(Halt(z)) = z[1] => Halt(z).ersatzzug = NoneZid
          /\ kuppel_zid(Halt(z)) = z[1] => Halt(z).kuppelzug = NoneZid
          /\ fluegel_zid(Halt(z)) = z[1] => Halt(z).fluegelzug = NoneZid
    /\ \A zid \in DOMAIN zugliste : zugliste[zid].stammzug # zid

\* C14: cross-train propagation terminates on every input: zugverspaetung_korrigieren
\* started on any train returns after finitely many nested calls, also when the links
\* form a cycle; no call nests without end (which python ends with RecursionError).
C14_Terminiert == fehler # "RecursionError"

\* the train ids the markers of the stops of a train name
Marken(zug) ==
    UNION {{ersatz_zid(zug.fahrplan[j]), kuppel_zid(zug.fahrplan[j]),
            fluegel_zid(zug.fahrplan[j])} : j \in 1..Len(zug.fahrplan)} \ {NoneZid}

\* the listed trains with a marker that names train b
Referenten(b) == {a \in DOMAIN zugliste : b \in Marken(zugliste[a])}

\* the stop's reference for a marker is set exactly when the named train is listed
Verlinkt(marke, verweis) ==
    marke # NoneZid => verweis = (IF marke \in DOMAIN zugliste THEN marke ELSE NoneZid)

\* after zuege_uebernehmen the flag folgezuege_aufgeloest of every train is true exactly
\* when every id its markers name is listed, and every marker that names a listed train
\* is resolved into the stop's reference
FlaggenGenau ==
    /\ \A zid \in DOMAIN zugliste :
          zugliste[zid].folgezuege_aufgeloest <=> Marken(zugliste[zid]) \subseteq DOMAIN zugliste
    /\ \A z \in Ziele :
          /\ Verlinkt(ersatz_zid(Halt(z)), Halt(z).ersatzzug)
          /\ Verlinkt(kuppel_zid(Halt(z)), Halt(z).kuppelzug)
          /\ Verlinkt(fluegel_zid(Halt(z)), Halt(z).fluegelzug)

\* train a was listed before the last zuege_uebernehmen, which ingested the train b
\* that a marker of a names
Vorwaertsverweis(a, b) ==
    /\ a \in DOMAIN zugliste \ aufruf.neu
    /\ b \in aufruf.neu
    /\ b \in Marken(zugliste[a])

\* C15 as stated: after every zuege_uebernehmen a train's folgezuege_aufgeloest flag is
\* true exactly when every train id its markers name is a key of the collection; a
\* forward reference from A to B is resolved in the call in which B first appears: the
\* stop of A then references B and B's stammzug is A.
C15_Aufgeloest ==
    Uebernommen_Aufruf =>
        /\ FlaggenGenau
        /\ \A a, b \in DOMAIN zugliste :
              Vorwaertsverweis(a, b) => zugliste[b].stammzug = a

\* C15 amended: as C15, but B's stammzug is A only when A is the only listed train
\* that names B; when several trains name B, B's stammzug is one of them (the one the
\* work queue resolved last).
C15_Aufgeloest_Amended ==
    Uebernommen_Aufruf =>
        /\ FlaggenGenau
        /\ \A a, b \in DOMAIN zugliste :
              Vorwaertsverweis(a, b) =>
                  /\ zugliste[b].stammzug \in Referenten(b)
                  /\ (Referenten(b) = {a} => zugliste[b].stammzug = a)

\* the last zuege_uebernehmen ingested a train that an unresolved train, listed by an
\* earlier call, was waiting for: the earlier train is now resolved, its stop
\* references the new train and the new train's stammzug is the earlier train
C15_Witness ==
    /\ Uebernommen_Aufruf
    /\ \E z \in Ziele : \E b \in aufruf.neu :
          /\ Vorwaertsverweis(z[1], b)
          /\ b \in {Halt(z).ersatzzug, Halt(z).kuppelzug, Halt(z).fluegelzug}
          /\ zugliste[z[1]].folgezuege_aufgeloest
          /\ zugliste[b].stammzug = z[1]

----------------------------------------------------------------------------
(* Dispatcher overrides *)

\* the delays a dispatcher fixes: an early departure and a late one
FdlWerte == {-1, 3}

\* the stops that carry a dispatcher override
MitFdl == {z \in Ziele : Halt(z).fdl_korrektur # KeineKorrektur}

\* the external operator sets the override of a stop to FesteVerspaetung(v) or clears it
FdlKorrekturSetzen ==
    /\ fehler = ""
    /\ \E z \in Ziele : \E k \in {KeineKorrektur} \cup {FesteVerspaetung(v) : v \in FdlWerte} :
          /\ k # Halt(z).fdl_korrektur
          /\ k # KeineKorrektur => Cardinality(MitFdl \ {z}) < MaxFdl
          /\ zugliste' = [zugliste EXCEPT ![z[1]].fahrplan[z[2] + 1].fdl_korrektur = k]
    /\ aufruf' = [KeinAufruf EXCEPT !.op = "fdl_korrektur_setzen"]
    /\ UNCHANGED <<welt, sim, schluessel, fehler>>

\* train 1 stops at A and couples at B onto train 2, which is planned to arrive at B
\* three minutes after train 1
WeltFest ==
    1 :> Stammdaten("Gleis A", "Gleis B",
                    <<Zeile("A", <<9, 50>>, <<9, 51>>, KeineFlags),
                      Zeile("B", <<9, 59>>, <<10, 3>>, FlagK(2))>>,
                    {0, 1}, 1, Sichtbar)
    @@ 2 :> Stammdaten("Gleis B", "Gleis C",
                       <<Zeile("B", <<10, 2>>, <<10, 3>>, KeineFlags)>>, {0}, 0, Sichtbar)

\* the update cycle, the single steps of it, and the dispatcher
NextFdl ==
    \/ ZuegeUebernehmen
    \/ VerspaetungenKorrigierenAufruf
    \/ ZugverspaetungKorrigierenAufruf
    \/ FolgezuegeAufloesenAufruf
    \/ KorrekturenDefinierenAufruf
    \/ FdlKorrekturSetzen

InitFdl == InitWelt({WeltFest})
SpecFdl == InitFdl /\ [][NextFdl]_vars

\* C16: no operation of the core writes a stop's override slot fdl_korrektur or the
\* attributes of the override object: across every step other than the external
\* operator's, every stop keeps its override, and the stops of a newly listed train
\* have none.
C16_FdlBleibt ==
    [][aufruf'.op # "fdl_korrektur_setzen" =>
          \A zid \in DOMAIN zugliste' : \A j \in 1..Len(zugliste'[zid].fahrplan) :
              zugliste'[zid].fahrplan[j].fdl_korrektur =
                  IF zid \in DOMAIN zugliste
                  THEN zugliste[zid].fahrplan[j].fdl_korrektur
                  ELSE KeineKorrektur]_vars

\* a propagation has applied the override of a stop that also carries an automatic
\* strategy
C16_Witness ==
    /\ Korrigiert
    /\ \E z \in Ziele :
          /\ ImBereich(z)
          /\ Halt(z).fdl_korrektur.art = "FesteVerspaetung"
          /\ Halt(z).auto_korrektur.art # "None"

\* a stop in the range of the last propagation that carries a FesteVerspaetung override
Festgelegt(z) == ImBereich(z) /\ Halt(z).fdl_korrektur.art = "FesteVerspaetung"

\* the stop after z, if the train has one
Danach(z) == <<z[1], z[2] + 1>>
HatDanach(z) == z[2] + 1 < Len(zugliste[z[1]].fahrplan)

\* C17 as stated: the override runs after the automatic strategy and its result is
\* final: when a stop carries a FesteVerspaetung override with value v, after
\* zugverspaetung_korrigieren the stop's verspaetung_ab equals v (also when v is
\* negative) and the next stop's verspaetung_an equals v, whatever the automatic
\* strategy computed.
C17_FesteVerspaetung ==
    Korrigiert =>
        \A z \in Ziele :
            Festgelegt(z) =>
                /\ Halt(z).verspaetung_ab = Halt(z).fdl_korrektur.verspaetung
                /\ HatDanach(z) =>
                       Halt(Danach(z)).verspaetung_an = Halt(z).fdl_korrektur.verspaetung

\* C17 amended: the stop's verspaetung_ab equals v, and v is the delay carried into the
\* next stop: the next stop's verspaetung_an equals v unless the next stop carries the
\* Kupplung strategy, which raises its own arrival delay above v (by at most 3) while
\* the estimated arrival is less than 2 minutes from the partner's.
C17_FesteVerspaetung_Amended ==
    Korrigiert =>
        \A z \in Ziele :
            Festgelegt(z) =>
                LET v == Halt(z).fdl_korrektur.verspaetung
                IN  /\ Halt(z).verspaetung_ab = v
                    /\ HatDanach(z) =>
                           IF Halt(Danach(z)).auto_korrektur.art = "Kupplung"
                           THEN Halt(Danach(z)).verspaetung_an \in v..(v + 3)
                           ELSE Halt(Danach(z)).verspaetung_an = v

\* a propagation has applied a negative override at a stop whose automatic strategy
\* computed another departure delay, and has carried it into the next stop
C17_Witness ==
    /\ Korrigiert
    /\ \E z \in Ziele :
          /\ Festgelegt(z) /\ HatDanach(z)
          /\ Halt(z).auto_korrektur.art = "PlanmaessigeAbfahrt"
          /\ Halt(z).fdl_korrektur.verspaetung < 0
          /\ Halt(z).verspaetung_an > 0
          /\ Halt(z).verspaetung_ab = Halt(z).fdl_korrektur.verspaetung
          /\ Halt(Danach(z)).verspaetung_an = Halt(z).fdl_korrektur.verspaetung

----------------------------------------------------------------------------
(* Strategy assignment *)

\* train 1 ends at B and is replaced by train 2, which starts at B and is replaced
\* there by train 3
WeltKette ==
    1 :> Stammdaten("Ost", "Gleis B",
                    <<Zeile("B", <<9, 55>>, NoneZeit, FlagE(2))>>, {0, 1}, 0, Sichtbar)
    @@ 2 :> Stammdaten("Gleis B", "Gleis B",
                       <<Zeile("B", <<9, 58>>, NoneZeit, FlagE(3))>>, {0}, 0, Sichtbar)
    @@ 3 :> Stammdaten("Gleis B", "West",
                       <<Zeile("B", <<10, 1>>, <<10, 2>>, KeineFlags)>>, {0}, 0, Sichtbar)

InitKette == InitWelt({WeltKette, WeltRaute} \cup WeltenFluegel)
SpecKette == InitKette /\ [][NextZyklus]_vars

\* every train a marker names is listed
AllePartnerDa == \A zid \in DOMAIN zugliste : Marken(zugliste[zid]) \subseteq DOMAIN zugliste

\* a stop whose markers ziel_korrekturen_definieren looks at
Planhalt(z) == ~Halt(z).einfahrt /\ ~Halt(z).ausfahrt /\ ~durchfahrt(Halt(z))

\* the automatic strategy of the first stop of train b, if it has one
ErstesZiel(b, k) == Len(zugliste[b].fahrplan) > 0 => zugliste[b].fahrplan[1].auto_korrektur = k

\* the automatic strategy of the stop of train b at the planned track, if it has one
GleichesZiel(b, plan, k) ==
    find_fahrplanzeile(zugliste[b], plan) # NoneIndex =>
        zugliste[b].fahrplan[find_fahrplanzeile(zugliste[b], plan) + 1].auto_korrektur = k

\* C18: after link resolution and strategy assignment for a collection in which every
\* referenced train is present, for every stop S with a replacement marker the first
\* stop of the replacement train carries AnkunftAbwarten with ursprung S, for every stop
\* S with a coupling marker the partner's stop at the same planned track carries
\* AnkunftAbwarten with ursprung S, and for every stop S with a split marker the first
\* stop of the split-off train carries AbfahrtAbwarten with ursprung S and wartezeit 2;
\* for every insertion order, also when the target stop has a marker of its own.
C18_Anschluss ==
    Uebernommen_Aufruf /\ AllePartnerDa =>
        \A z \in Ziele :
            Planhalt(z) =>
                /\ ersatz_zid(Halt(z)) # NoneZid =>
                       ErstesZiel(ersatz_zid(Halt(z)), AnkunftAbwarten(z, 0))
                /\ ersatz_zid(Halt(z)) = NoneZid /\ kuppel_zid(Halt(z)) # NoneZid =>
                       GleichesZiel(kuppel_zid(Halt(z)), Halt(z).plan, AnkunftAbwarten(z, 0))
                /\ ersatz_zid(Halt(z)) = NoneZid /\ kuppel_zid(Halt(z)) = NoneZid
                       /\ fluegel_zid(Halt(z)) # NoneZid =>
                       ErstesZiel(fluegel_zid(Halt(z)),
                                  AbfahrtAbwarten(z, WartezeitFluegelung))

\* train 1 stops at A with the flags `flags` and goes on to B; train 2, which the
\* markers among the flags name, starts at A
WeltMarke(flags) ==
    1 :> Stammdaten("Ost", "West",
                    <<Zeile("A", <<9, 58>>, <<9, 59>>, flags),
                      Zeile("B", <<10, 5>>, <<10, 6>>, KeineFlags)>>,
                    {0, 1}, 1, Sichtbar)
    @@ 2 :> Stammdaten("Gleis A", "Nord",
                       <<Zeile("A", <<9, 58>>, <<10, 1>>, KeineFlags)>>,
                       {0}, 0, {"angekuendigt"})

\* a reversal, locomotive-cycle or locomotive-change marker with each kind of link
WeltenMarke ==
    {WeltMarke([w EXCEPT !.E = m.E, !.K = m.K, !.F = m.F]) :
        w \in {FlagR, FlagL, FlagW}, m \in {KeineFlags, FlagE(2), FlagK(2), FlagF(2)}}

InitMarke == InitWelt(WeltenMarke)
SpecMarke == InitMarke /\ [][NextZyklus]_vars

\* C19: after strategy assignment a stop that is not an entry, exit or through-pass
\* stop and carries a reversal, locomotive-cycle or locomotive-change marker has
\* mindestaufenthalt 2, 2 or 5 respectively, whichever automatic strategy the stop gets
\* (PlanmaessigeAbfahrt, Ersatzzug, Kupplung or Fluegelung).
C19_Wendezeit ==
    Uebernommen_Aufruf =>
        \A z \in Ziele :
            Planhalt(z) =>
                /\ richtungswechsel(Halt(z)) =>
                       Halt(z).mindestaufenthalt = MindestRichtungswechsel
                /\ ~richtungswechsel(Halt(z)) /\ lokumlauf(Halt(z)) =>
                       Halt(z).mindestaufenthalt = MindestLokumlauf
                /\ ~richtungswechsel(Halt(z)) /\ ~lokumlauf(Halt(z)) /\ lokwechsel(Halt(z)) =>
                       Halt(z).mindestaufenthalt = MindestLokwechsel

----------------------------------------------------------------------------
(* Missing planned times *)

\* train 1 ends at B, with planned arrival `an1` or none, and is replaced by train 2,
\* which starts at B with the planned times `an2` and `ab2` or without them
WeltLuecke(an1, an2, ab2) ==
    1 :> Stammdaten("Ost", "Gleis B",
                    <<Zeile("A", <<9, 50>>, <<9, 51>>, KeineFlags),
                      Zeile("B", an1, NoneZeit, FlagE(2))>>,
                    {0, 1}, 1, Sichtbar)
    @@ 2 :> Stammdaten("Gleis B", "West",
                       <<Zeile("B", an2, ab2, KeineFlags),
                         Zeile("C", NoneZeit, <<10, 11>>, KeineFlags)>>,
                       {0}, 0, {"angekuendigt"})

WeltenLuecke ==
    {WeltLuecke(an1, an2, ab2) :
        an1 \in {NoneZeit, <<9, 58>>}, an2 \in {NoneZeit, <<9, 59>>},
        ab2 \in {NoneZeit, <<10, 1>>}}

InitLuecke == InitWelt(WeltenLuecke)
SpecLuecke == InitLuecke /\ [][NextZug]_vars

\* C20: propagation never raises: whatever planned times of a stop are missing (no
\* planned arrival, no planned departure, or neither) and whatever link target or
\* origin stop data is missing, verspaetungen_korrigieren and
\* zugverspaetung_korrigieren complete without an exception, and a strategy that
\* cannot resolve its input (PlanmaessigeAbfahrt at a stop without planned arrival)
\* leaves the stop's verspaetung_ab at the pre-seeded running delay.
C20_KeineAusnahme ==
    aufruf.op \in {"verspaetungen_korrigieren", "zugverspaetung_korrigieren"} =>
        /\ fehler = ""
        /\ \A z \in Ziele :
              NurPlanmaessig(z) /\ Halt(z).an = NoneZeit =>
                  Halt(z).verspaetung_ab = Halt(z).verspaetung_an

----------------------------------------------------------------------------
(* Entry stops *)

\* train 1 ends at B and is replaced by train 2, which enters the layout from Nord;
\* the first row of train 2 is its entry stop
WeltEinfahrt ==
    1 :> Stammdaten("Ost", "Gleis B",
                    <<Zeile("B", <<9, 58>>, NoneZeit, FlagE(2))>>, {0, 1}, 0, Sichtbar)
    @@ 2 :> Stammdaten("Nord", "Gleis C",
                       <<Zeile("B", <<9, 58>>, <<9, 59>>, KeineFlags)>>, {0}, 0, Sichtbar)

InitEinfahrt == InitWelt({WeltEinfahrt})
SpecEinfahrt == InitEinfahrt /\ [][NextBereich]_vars

\* C21: after zugverspaetung_korrigieren on a train whose first stop is an entry stop,
\* that stop's verspaetung_an equals its verspaetung_ab as computed in the same pass,
\* also when the entry stop carries an automatic wait strategy or a dispatcher
\* override that changes verspaetung_ab.
C21_Einfahrt ==
    Korrigiert =>
        \A zid \in aufruf.besucht :
            Len(zugliste[zid].fahrplan) > 0 /\ zugliste[zid].fahrplan[1].einfahrt =>
                zugliste[zid].fahrplan[1].verspaetung_an
                    = zugliste[zid].fahrplan[1].verspaetung_ab

----------------------------------------------------------------------------
(* Position of a train *)

\* C22: after zuege_uebernehmen updates a known train whose position index is k, every
\* persisted stop of that train (element of the fahrplan of the ZugDetailsPlanung)
\* with index < k has passiert = true.
C22_Passiert ==
    Uebernommen_Aufruf =>
        \A zid \in aufruf.zids \ aufruf.neu :
            zugliste[zid].ziel_index # NoneIndex =>
                \A j \in 1..Len(zugliste[zid].fahrplan) :
                    j - 1 < zugliste[zid].ziel_index => zugliste[zid].fahrplan[j].passiert

----------------------------------------------------------------------------
(* Gating of linked trains *)

\* train 1 starts at A, splits there and goes on to B; the split-off train 2 starts
\* at A
WeltFluegelFest ==
    1 :> Stammdaten("Gleis A", "Gleis B",
                    <<Zeile("A", <<9, 58>>, <<9, 59>>, FlagF(2)),
                      Zeile("B", <<10, 5>>, <<10, 6>>, KeineFlags)>>,
                    {0, 1}, 0, Sichtbar)
    @@ 2 :> Stammdaten("Gleis A", "Gleis C",
                       <<Zeile("A", <<9, 58>>, <<10, 1>>, KeineFlags)>>, {0}, 0, Sichtbar)

\* the update cycle and the dispatcher
NextZyklusFdl ==
    \/ ZuegeUebernehmen
    \/ VerspaetungenKorrigierenAufruf
    \/ FdlKorrekturSetzen

InitFluegelFest == InitWelt({WeltFluegelFest})
SpecFluegelFest == InitFluegelFest /\ [][NextZyklusFdl]_vars

\* estimated departure of a stop with planned departure
abfahrt_geschaetzt(ziel) == time_to_minutes(ziel.ab) + ziel.verspaetung_ab

\* a propagated split stop with planned times whose split-off train is linked, stands
\* before its first stop, and has planned times and no override there
Gefluegelt(z) ==
    /\ ImBereich(z)
    /\ Halt(z).auto_korrektur.art = "Fluegelung"
    /\ Halt(z).fluegelzug # NoneZid
    /\ HatZeiten(Halt(z))
    /\ Len(zugliste[Halt(z).fluegelzug].fahrplan) > 0
    /\ StartIndex(zugliste[Halt(z).fluegelzug]) = 0
    /\ HatZeiten(zugliste[Halt(z).fluegelzug].fahrplan[1])
    /\ zugliste[Halt(z).fluegelzug].fahrplan[1].fdl_korrektur.art = "None"

\* C23: split gating: after a full propagation pass, for every split stop S of a parent
\* train with a linked split-off train F, the estimated departure of F's first stop is
\* at least the final estimated departure of S (planned departure of S plus S's
\* verspaetung_ab at the end of the pass, including the effect of a dispatcher override
\* on S) plus 2 minutes.
C23_Fluegelsperre ==
    PassBeendet =>
        \A z \in Ziele :
            Gefluegelt(z) =>
                abfahrt_geschaetzt(zugliste[Halt(z).fluegelzug].fahrplan[1])
                    >= abfahrt_geschaetzt(Halt(z)) + WartezeitFluegelung

\* train 1 ends at B and is replaced by train 2, which is planned to stand at B from
\* the planned arrival of train 1 and to leave a minute later
WeltErsatzFest ==
    1 :> Stammdaten("Gleis A", "Gleis B",
                    <<Zeile("A", <<9, 50>>, <<9, 51>>, KeineFlags),
                      Zeile("B", <<9, 58>>, NoneZeit, FlagE(2))>>,
                    {0, 1, 2}, 1, Sichtbar)
    @@ 2 :> Stammdaten("Gleis B", "Gleis C",
                       <<Zeile("B", <<9, 58>>, <<9, 59>>, KeineFlags),
                         Zeile("C", <<10, 10>>, <<10, 11>>, KeineFlags)>>,
                       {0}, 0, Sichtbar)

InitErsatzFest == InitWelt({WeltErsatzFest})
SpecErsatzFest == InitErsatzFest /\ [][NextZyklusFdl]_vars

\* estimated arrival of a stop with planned arrival
ankunft_geschaetzt(ziel) == time_to_minutes(ziel.an) + ziel.verspaetung_an

\* a propagated replacement stop with planned arrival whose replacement train is
\* linked, stands before its first stop, and has a planned departure and no override
\* there
Ersetzt(z) ==
    /\ ImBereich(z)
    /\ Halt(z).auto_korrektur.art = "Ersatzzug"
    /\ Halt(z).ersatzzug # NoneZid
    /\ Halt(z).an # NoneZeit
    /\ Len(zugliste[Halt(z).ersatzzug].fahrplan) > 0
    /\ StartIndex(zugliste[Halt(z).ersatzzug]) = 0
    /\ zugliste[Halt(z).ersatzzug].fahrplan[1].ab # NoneZeit
    /\ zugliste[Halt(z).ersatzzug].fahrplan[1].fdl_korrektur.art = "None"

C25_AlleKorrigiert ==
    PassBeendet => aufruf.besucht = DOMAIN zugliste

(* AnkunftAbwarten on its own *)

\* the stop that waits (train 2) and the stop it waits for (train 1), as the
\* propagation loop hands them to the strategy: both delays of the waiting stop seeded
\* with the running delay
WartendesZiel(an, ab, verspaetung, mindestaufenthalt, k) ==
    [NeuesZiel EXCEPT !.gleis = "B", !.plan = "B", !.an = an, !.ab = ab,
                      !.verspaetung_an = verspaetung, !.verspaetung_ab = verspaetung,
                      !.mindestaufenthalt = mindestaufenthalt, !.auto_korrektur = k]

UrsprungsZiel(an, verspaetung) ==
    [NeuesZiel EXCEPT !.gleis = "B", !.plan = "B", !.an = an,
                      !.verspaetung_an = verspaetung, !.verspaetung_ab = verspaetung,
                      !.auto_korrektur = PlanmaessigeAbfahrt]

InitAnkunft ==
    /\ welt = << >>
    /\ sim = << >>
    /\ schluessel = <<1, 2>>
    /\ fehler = ""
    /\ aufruf = KeinAufruf
    /\ \E an \in {NoneZeit, <<9, 58>>}, ab \in {NoneZeit, <<9, 59>>, <<10, 1>>},
          v \in (-1)..MaxVerspaetung, m \in {0, MindestRichtungswechsel},
          u \in {NoneZiel, <<1, 0>>}, w \in {0, WartezeitFluegelung},
          uan \in {NoneZeit, <<9, 57>>, <<10, 0>>}, uv \in 0..MaxVerspaetung :
            zugliste =
                1 :> [NeuerZug EXCEPT !.zid = 1, !.verspaetung = uv,
                                      !.fahrplan = <<UrsprungsZiel(uan, uv)>>]
                @@ 2 :> [NeuerZug EXCEPT !.zid = 2, !.verspaetung = v, !.stammzug = 1,
                                         !.fahrplan = <<WartendesZiel(an, ab, v, m,
                                                            AnkunftAbwarten(u, w))>>]

\* ziel.auto_korrektur.anwenden(zug, ziel) on the waiting stop
AnkunftAbwartenAufruf ==
    /\ fehler = "" /\ aufruf.op = ""
    /\ LET ziel == zugliste[2].fahrplan[1]
           k == ziel.auto_korrektur
       IN  \E r \in {AnkunftAbwarten_anwenden(ziel, k, HatUrsprung(k),
                                                Ursprung(Programm(zugliste), k))} :
               /\ zugliste' = [zugliste EXCEPT ![2].fahrplan[1] = r.ziel]
               /\ fehler' = r.fehler
    /\ aufruf' = [KeinAufruf EXCEPT !.op = "AnkunftAbwarten.anwenden", !.zid = 2]
    /\ UNCHANGED <<welt, sim, schluessel>>

SpecAnkunft == InitAnkunft /\ [][AnkunftAbwartenAufruf]_vars

Angewendet == aufruf.op = "AnkunftAbwarten.anwenden" /\ fehler = ""

\* the planned departure the strategies compute with
plan_abfahrt(ziel) ==
    IF ziel.ab # NoneZeit THEN time_to_minutes(ziel.ab)
    ELSE time_to_minutes(ziel.an) + ziel.mindestaufenthalt

\* the estimated arrival the strategy computes with
eigene_ankunft(ziel) ==
    (IF ziel.an # NoneZeit THEN time_to_minutes(ziel.an) ELSE plan_abfahrt(ziel))
        + ziel.verspaetung_an

\* C26: AnkunftAbwarten.anwenden sets the estimated departure of the stop to
\* max(own estimated arrival + max(plan_ab - own estimated arrival, mindestaufenthalt),
\* planned arrival of the origin + its verspaetung_an + wartezeit); the result is
\* never earlier than the origin's estimated arrival plus wartezeit and never earlier
\* than what PlanmaessigeAbfahrt yields for the same stop.
C26_AnkunftAbwarten ==
    Angewendet =>
        LET ziel == zugliste[2].fahrplan[1]
            ursprung == zugliste[1].fahrplan[1]
            wartezeit == ziel.auto_korrektur.wartezeit
            abfahrt == plan_abfahrt(ziel) + ziel.verspaetung_ab
            planmaessig ==
                PlanmaessigeAbfahrt_anwenden(
                    [ziel EXCEPT !.verspaetung_ab = ziel.verspaetung_an])
        IN  /\ abfahrt = Max(eigene_ankunft(ziel)
                                + Max(plan_abfahrt(ziel) - eigene_ankunft(ziel),
                                      ziel.mindestaufenthalt),
                             ankunft_geschaetzt(ursprung) + wartezeit)
            /\ abfahrt >= ankunft_geschaetzt(ursprung) + wartezeit
            /\ abfahrt >= plan_abfahrt(ziel) + planmaessig.verspaetung_ab

\* the stop is held for the origin: it leaves wartezeit > 0 after the late origin has
\* arrived, later than its own arrival and dwell would let it
C26_Witness ==
    /\ Angewendet
    /\ LET ziel == zugliste[2].fahrplan[1]
           ursprung == zugliste[1].fahrplan[1]
       IN  /\ ziel.auto_korrektur.wartezeit > 0
           /\ ursprung.verspaetung_an > 0
           /\ plan_abfahrt(ziel) + ziel.verspaetung_ab
                 = ankunft_geschaetzt(ursprung) + ziel.auto_korrektur.wartezeit
           /\ plan_abfahrt(ziel) + ziel.verspaetung_ab
                 > eigene_ankunft(ziel)
                     + Max(plan_abfahrt(ziel) - eigene_ankunft(ziel), ziel.mindestaufenthalt)

(* Delay carry *)

\* train 1 calls at A and B with a dwell of one minute each, and couples at C onto
\* train 2, which stands there from the planned arrival of train 1
WeltUebertrag ==
    1 :> Stammdaten("Gleis A", "Gleis C",
                    <<Zeile("A", <<9, 50>>, <<9, 51>>, KeineFlags),
                      Zeile("B", <<9, 58>>, <<9, 59>>, KeineFlags),
                      Zeile("C", <<10, 5>>, NoneZeit, FlagK(2))>>,
                    {0, 2}, 0, Sichtbar)
    @@ 2 :> Stammdaten("Gleis C", "Gleis D",
                       <<Zeile("C", <<10, 5>>, <<10, 10>>, KeineFlags)>>,
                       {0}, 0, Sichtbar)

InitUebertrag == InitWelt({WeltUebertrag})
SpecUebertrag == InitUebertrag /\ [][NextBereich]_vars

\* zugverspaetung_korrigieren(zug, start, stop) has returned
Zugkorrigiert == fehler = "" /\ aufruf.op = "zugverspaetung_korrigieren"

\* the range of stops of the last zugverspaetung_korrigieren call, 0-based
BereichStart ==
    IF aufruf.start # NoneIndex THEN aufruf.start
    ELSE StartIndex(zugliste[aufruf.zid])
BereichEnde ==
    IF aufruf.stop = NoneIndex \/ aufruf.stop > Len(zugliste[aufruf.zid].fahrplan)
    THEN Len(zugliste[aufruf.zid].fahrplan) ELSE aufruf.stop

\* the delay the loop carries into stop i of the range
Uebertrag(i) ==
    IF i = BereichStart THEN zugliste[aufruf.zid].verspaetung
    ELSE zugliste[aufruf.zid].fahrplan[i].verspaetung_ab

\* the arrival delay of stop i is the carried delay, or a coupling strategy on the stop
\* has raised it
Geerbt(i) ==
    LET ziel == zugliste[aufruf.zid].fahrplan[i + 1]
    IN  \/ ziel.verspaetung_an = Uebertrag(i)
        \/ /\ ziel.auto_korrektur.art = "Kupplung"
           /\ ziel.verspaetung_an > Uebertrag(i)

\* C27 as stated: delay carry: after zugverspaetung_korrigieren(train, start, stop) the
\* first stop in range has verspaetung_an equal to the train's current verspaetung, and
\* for every two consecutive stops i, i+1 in range verspaetung_an of stop i+1 equals
\* verspaetung_ab of stop i, except where a coupling strategy on stop i+1 raised its
\* arrival delay.
C27_Uebertrag ==
    Zugkorrigiert =>
        \A i \in BereichStart..(BereichEnde - 1) :
            IF i = BereichStart
            THEN zugliste[aufruf.zid].fahrplan[i + 1].verspaetung_an
                    = zugliste[aufruf.zid].verspaetung
            ELSE Geerbt(i)

\* C27 amended: the exception for a coupling strategy that raised the arrival delay
\* holds for the first stop in range as well: every stop in range has verspaetung_an
\* equal to the delay carried into it (the train's current verspaetung for the first
\* stop, verspaetung_ab of the stop before for the others), or carries a coupling
\* strategy that raised its arrival delay above it.
C27_Uebertrag_Amended ==
    Zugkorrigiert => \A i \in BereichStart..(BereichEnde - 1) : Geerbt(i)

\* a call over at least two stops after which a stop's dwell has absorbed part of the
\* delay and the next stop arrives with what is left
C27_Witness ==
    /\ Zugkorrigiert
    /\ \E i \in (BereichStart + 1)..(BereichEnde - 1) :
          /\ Uebertrag(i) > 0
          /\ Uebertrag(i) < zugliste[aufruf.zid].verspaetung
          /\ zugliste[aufruf.zid].fahrplan[i + 1].verspaetung_an = Uebertrag(i)

(* Entry, exit and through-pass stops *)

\* train 1 enters from Ost, passes A without stopping, where the timetable carries the
\* given markers, and leaves to West; train 2 starts at A
WeltDurchfahrt(flags) ==
    1 :> Stammdaten("Ost", "West",
                    <<Zeile("A", <<9, 58>>, <<9, 58>>, [flags EXCEPT !.D = TRUE]),
                      Zeile("B", <<10, 5>>, <<10, 6>>, KeineFlags)>>,
                    {0, 1}, 1, Sichtbar)
    @@ 2 :> Stammdaten("Gleis A", "Nord",
                       <<Zeile("A", <<9, 58>>, <<10, 1>>, KeineFlags)>>,
                       {0}, 0, {"angekuendigt"})

WeltenDurchfahrt ==
    {WeltDurchfahrt(f) : f \in {KeineFlags, FlagR, FlagL, FlagW, FlagF(2), FlagE(2), FlagK(2),
                                [FlagR EXCEPT !.F = 2]}}

\* the through-pass worlds, and a replacement train that enters from off the layout
InitDurchfahrt == InitWelt(WeltenDurchfahrt \cup {WeltEinfahrt})
SpecDurchfahrt == InitDurchfahrt /\ [][NextZyklus]_vars

\* entry, exit or through-pass stop
Sonderhalt(ziel) == ziel.einfahrt \/ ziel.ausfahrt \/ durchfahrt(ziel)

\* the automatic strategy slot of stop j of train zid before the step: a stop of a train
\* listed by the step starts with an empty slot
SlotVorher(zid, j) ==
    IF zid \in DOMAIN zugliste THEN zugliste[zid].fahrplan[j].auto_korrektur
    ELSE KeineKorrektur

\* the slot of stop j of train zid holds the wait strategy that the link marker of
\* another stop, which names the train, has installed
Angeschlossen(zl, zid, j) ==
    LET k == zl[zid].fahrplan[j].auto_korrektur
    IN  /\ k.art \in {"AnkunftAbwarten", "AbfahrtAbwarten"}
        /\ k.ursprung # NoneZiel
        /\ LET u == zl[k.ursprung[1]].fahrplan[k.ursprung[2] + 1]
           IN  \/ /\ u.auto_korrektur.art = "Ersatzzug" /\ u.ersatzzug = zid
                  /\ j = 1 /\ k.art = "AnkunftAbwarten"
               \/ /\ u.auto_korrektur.art = "Kupplung" /\ u.kuppelzug = zid
                  /\ zl[zid].fahrplan[j].plan = u.plan /\ k.art = "AnkunftAbwarten"
               \/ /\ u.auto_korrektur.art = "Fluegelung" /\ u.fluegelzug = zid
                  /\ j = 1 /\ k.art = "AbfahrtAbwarten"

\* C28 as stated: after strategy assignment every entry stop, exit stop and
\* through-pass stop has mindestaufenthalt 0, also when it carries a reversal,
\* locomotive-change or split marker, and its automatic strategy slot is left as it
\* was before the assignment.
C28_Sonderhalt ==
    [][\A zid \in DOMAIN zugliste' : \A j \in 1..Len(zugliste'[zid].fahrplan) :
          Sonderhalt(zugliste'[zid].fahrplan[j]) =>
              /\ zugliste'[zid].fahrplan[j].mindestaufenthalt = 0
              /\ zugliste'[zid].fahrplan[j].auto_korrektur = SlotVorher(zid, j)]_vars

\* C28 amended: after strategy assignment every entry stop, exit stop and through-pass
\* stop has mindestaufenthalt 0, also when it carries a reversal, locomotive-change or
\* split marker; its own markers give it no strategy, and its automatic strategy slot
\* is left as it was unless the replacement, coupling or split marker of another
\* train's stop names its train and puts that stop's wait strategy into the slot.
C28_Sonderhalt_Amended ==
    [][\A zid \in DOMAIN zugliste' : \A j \in 1..Len(zugliste'[zid].fahrplan) :
          Sonderhalt(zugliste'[zid].fahrplan[j]) =>
              /\ zugliste'[zid].fahrplan[j].mindestaufenthalt = 0
              /\ \/ zugliste'[zid].fahrplan[j].auto_korrektur = SlotVorher(zid, j)
                 \/ Angeschlossen(zugliste', zid, j)]_vars

\* the strategies of a train are assigned, and its through-pass stop with a reversal
\* and a split marker has no dwell and an empty slot
C28_Witness ==
    \E z \in Ziele :
        /\ zugliste[z[1]].korrekturen_definiert
        /\ durchfahrt(Halt(z))
        /\ richtungswechsel(Halt(z))
        /\ fluegel_zid(Halt(z)) # NoneZid
        /\ Halt(z).mindestaufenthalt = 0
        /\ Halt(z).auto_korrektur.art = "None"

(* Several link markers on one stop *)

\* train 1 stops at A, where the timetable carries the given link markers, and goes on
\* to B; the trains 2, 3 and 4 start at A
WeltMehrfach(flags) ==
    1 :> Stammdaten("Ost", "West",
                    <<Zeile("A", <<9, 58>>, <<9, 59>>, flags),
                      Zeile("B", <<10, 5>>, <<10, 6>>, KeineFlags)>>,
                    {0, 1}, 1, Sichtbar)
    @@ 2 :> Stammdaten("Gleis A", "Nord",
                       <<Zeile("A", <<9, 58>>, <<10, 1>>, KeineFlags)>>,
                       {0}, 0, {"angekuendigt"})
    @@ 3 :> Stammdaten("Gleis A", "Nord",
                       <<Zeile("A", <<9, 58>>, <<10, 2>>, KeineFlags)>>,
                       {0}, 0, {"angekuendigt"})
    @@ 4 :> Stammdaten("Gleis A", "Nord",
                       <<Zeile("A", <<9, 58>>, <<10, 3>>, KeineFlags)>>,
                       {0}, 0, {"angekuendigt"})

\* every combination of at least two link markers
WeltenMehrfach ==
    {WeltMehrfach([KeineFlags EXCEPT !.E = m[1], !.K = m[2], !.F = m[3]]) :
        m \in {<<2, 3, 0>>, <<2, 0, 4>>, <<0, 3, 4>>, <<2, 3, 4>>}}

InitMehrfach == InitWelt(WeltenMehrfach)
SpecMehrfach == InitMehrfach /\ [][NextZyklus]_vars

\* the link markers of a stop
Linkmarken(ziel) ==
    {m \in {"E", "K", "F"} :
        \/ m = "E" /\ ersatz_zid(ziel) # NoneZid
        \/ m = "K" /\ kuppel_zid(ziel) # NoneZid
        \/ m = "F" /\ fluegel_zid(ziel) # NoneZid}

\* a stop the assignment looks at the markers of, with more than one link marker
Mehrfach(z) == Planhalt(z) /\ Cardinality(Linkmarken(Halt(z))) > 1

\* the strategy and the train of the first marker in the order replacement, coupling,
\* split
Gewaehlt(ziel) ==
    IF ersatz_zid(ziel) # NoneZid THEN Ersatzzug
    ELSE IF kuppel_zid(ziel) # NoneZid THEN Kupplung
    ELSE Fluegelung
GewaehlterZug(ziel) ==
    IF ersatz_zid(ziel) # NoneZid THEN ersatz_zid(ziel)
    ELSE IF kuppel_zid(ziel) # NoneZid THEN kuppel_zid(ziel)
    ELSE fluegel_zid(ziel)

\* the stops that carry a wait strategy whose origin is z
Wartende(z) ==
    {y \in Ziele : Halt(y).auto_korrektur.art \in {"AnkunftAbwarten", "AbfahrtAbwarten"}
                      /\ Halt(y).auto_korrektur.ursprung = z}

\* C29: marker priority: a stop that carries more than one of the replacement, coupling
\* and split markers gets exactly one automatic strategy, chosen in the order
\* replacement, then coupling, then split, and only the linked train of the chosen
\* marker receives a wait strategy from this stop.
C29_Markenrang ==
    Uebernommen_Aufruf =>
        \A z \in Ziele :
            Mehrfach(z) =>
                /\ Halt(z).auto_korrektur = Gewaehlt(Halt(z))
                /\ \A y \in Wartende(z) : y[1] = GewaehlterZug(Halt(z))

\* a stop with a replacement, a coupling and a split marker whose three trains are
\* listed: it carries Ersatzzug and the replacement train alone waits for it
C29_Witness ==
    /\ Uebernommen_Aufruf
    /\ \E z \in Ziele :
          /\ Mehrfach(z) /\ Linkmarken(Halt(z)) = {"E", "K", "F"}
          /\ {ersatz_zid(Halt(z)), kuppel_zid(Halt(z)), fluegel_zid(Halt(z))}
                \subseteq DOMAIN zugliste
          /\ Halt(z).auto_korrektur.art = "Ersatzzug"
          /\ Wartende(z) = {<<ersatz_zid(Halt(z)), 0>>}

(* Stops without a strategy *)

\* korrekturen_definieren has run, on its own or at the end of zuege_uebernehmen
Definiert == fehler = "" /\ aufruf.op \in {"zuege_uebernehmen", "korrekturen_definieren"}

\* C30: after korrekturen_definieren has run, every stop of every train has a non-empty
\* automatic strategy: a stop without a link marker whose slot was empty, entry, exit
\* and through-pass stops included, carries PlanmaessigeAbfahrt.
C30_JedesZiel ==
    Definiert =>
        \A z \in Ziele :
            /\ Halt(z).auto_korrektur.art # "None"
            /\ Linkmarken(Halt(z)) = {} =>
                   Halt(z).auto_korrektur.art
                       \in {"PlanmaessigeAbfahrt", "AnkunftAbwarten", "AbfahrtAbwarten"}

(* Repeated strategy assignment *)

\* train 1 couples at A onto a train that is never listed and ends at B, where train 2
\* replaces it; train 2 is replaced at B by train 3
WeltWiederholt ==
    1 :> Stammdaten("Gleis A", "Gleis B",
                    <<Zeile("A", <<9, 50>>, <<9, 51>>, FlagK(Fehlend)),
                      Zeile("B", <<9, 55>>, NoneZeit, FlagE(2))>>, {0, 1}, 0, Sichtbar)
    @@ 2 :> Stammdaten("Gleis B", "Gleis B",
                       <<Zeile("B", <<9, 58>>, NoneZeit, FlagE(3))>>, {0}, 0, Sichtbar)
    @@ 3 :> Stammdaten("Gleis B", "Gleis C",
                       <<Zeile("B", <<10, 1>>, <<10, 2>>, KeineFlags)>>, {0}, 0, Sichtbar)

\* ingestion, and strategy assignment and propagation called on their own
NextDefinieren ==
    \/ ZuegeUebernehmen
    \/ KorrekturenDefinierenAufruf
    \/ VerspaetungenKorrigierenAufruf

InitWiederholt == InitWelt({WeltWiederholt, WeltKette, WeltKlein})
SpecWiederholt == InitWiederholt /\ [][NextDefinieren]_vars

\* what strategy assignment decides for stop j of train zid: the kind of the automatic
\* strategy, its origin and wait time, and the minimum dwell
Zuweisung(zl, zid, j) ==
    <<zl[zid].fahrplan[j].auto_korrektur.art, zl[zid].fahrplan[j].auto_korrektur.ursprung,
      zl[zid].fahrplan[j].auto_korrektur.wartezeit, zl[zid].fahrplan[j].mindestaufenthalt>>

\* C31: strategy assignment is idempotent: a korrekturen_definieren run that follows a
\* run with no ingestion in between leaves the kind of every stop's automatic strategy,
\* its origin and wait time and the stop's mindestaufenthalt unchanged; and no
\* assignment run replaces the automatic strategy of a stop whose train has
\* korrekturen_definiert = true.
C31_Idempotent ==
    [][aufruf'.op = "korrekturen_definieren" =>
          \A zid \in DOMAIN zugliste : \A j \in 1..Len(zugliste[zid].fahrplan) :
              /\ Definiert => Zuweisung(zugliste', zid, j) = Zuweisung(zugliste, zid, j)
              /\ zugliste[zid].korrekturen_definiert =>
                     zugliste'[zid].fahrplan[j].auto_korrektur
                         = zugliste[zid].fahrplan[j].auto_korrektur]_vars

(* Kupplung on its own *)

\* the coupling stop of train 1 as the propagation loop hands it to the strategy, both
\* delays seeded with the running delay, and the stop of the partner at the same track
KuppelZiel(an, verspaetung, kuppelzug) ==
    [NeuesZiel EXCEPT !.gleis = "B", !.plan = "B", !.an = an,
                      !.flags = FlagK(2), !.kuppelzug = kuppelzug,
                      !.verspaetung_an = verspaetung, !.verspaetung_ab = verspaetung,
                      !.auto_korrektur = Kupplung]

PartnerZiel(an) ==
    [NeuesZiel EXCEPT !.gleis = "B", !.plan = "B", !.an = an, !.ab = <<10, 10>>,
                      !.auto_korrektur = AnkunftAbwarten(<<1, 0>>, 0)]

\* planned arrivals of the coupling train: around midnight, where the fallback partner
\* arrival 0 lies in the window, and in the morning
InitKuppeln ==
    /\ welt = << >>
    /\ sim = << >>
    /\ schluessel = <<1, 2>>
    /\ fehler = ""
    /\ aufruf = KeinAufruf
    /\ \E an \in {<<0, 0>>, <<0, 1>>, <<0, 3>>, <<9, 59>>},
          v \in (-1)..MaxVerspaetung, kz \in {NoneZid, 2},
          pan \in {NoneZeit, <<0, 1>>, <<9, 57>>, <<9, 58>>, <<9, 59>>, <<10, 0>>, <<10, 1>>},
          pv \in 0..MaxVerspaetung :
            zugliste =
                1 :> [NeuerZug EXCEPT !.zid = 1, !.verspaetung = v,
                                      !.plangleis = "B", !.ziel_index = 0,
                                      !.fahrplan = <<KuppelZiel(an, v, kz)>>]
                @@ 2 :> [NeuerZug EXCEPT !.zid = 2, !.verspaetung = pv,
                                         !.plangleis = "B", !.ziel_index = 0,
                                         !.stammzug = IF kz = 2 THEN 1 ELSE NoneZid,
                                         !.fahrplan = <<PartnerZiel(pan)>>]

\* ziel.auto_korrektur.anwenden(zug, ziel) on the coupling stop
KupplungAufruf ==
    /\ fehler = "" /\ aufruf.op = ""
    /\ \E P \in {Kupplung_anwenden(Programm(zugliste), 1, 0, MaxTiefe)} :
           /\ zugliste' = P.zl
           /\ fehler' = P.fehler
           /\ aufruf' = [KeinAufruf EXCEPT !.op = "Kupplung.anwenden", !.zid = 1,
                                           !.besucht = P.besucht, !.aufrufe = P.aufrufe,
                                           !.tiefe = P.tiefe]
    /\ UNCHANGED <<welt, sim, schluessel>>

SpecKuppeln == InitKuppeln /\ [][KupplungAufruf]_vars

\* how far the application has raised the arrival delay of the coupling stop above
\* the seeded delay
Angehoben == zugliste[1].fahrplan[1].verspaetung_an - zugliste[1].verspaetung

\* C32: the collision avoidance loop of Kupplung.anwenden always terminates and raises
\* the stop's verspaetung_an by at most 3 minutes in one application, for every
\* combination of planned arrival, seeded arrival delay and partner arrival, the
\* fallback partner arrival 0 for a missing partner or partner stop included.
C32_Ausweichen ==
    /\ fehler = ""
    /\ aufruf.op = "Kupplung.anwenden" => Angehoben \in 0..(2 * KuppelAbstand - 1)

\* the partner is estimated a minute after the coupling train: the loop raises the
\* arrival delay by the full three minutes
C32_Witness ==
    /\ aufruf.op = "Kupplung.anwenden" /\ fehler = ""
    /\ zugliste[1].fahrplan[1].kuppelzug = 2
    /\ Angehoben = 3

(* Seeding of the split-off train *)

\* a propagated split stop with planned arrival whose split-off train is linked and has
\* stops
Fluegelhalt(z) ==
    /\ ImBereich(z)
    /\ Halt(z).auto_korrektur.art = "Fluegelung"
    /\ Halt(z).fluegelzug # NoneZid
    /\ Halt(z).an # NoneZeit
    /\ Len(zugliste[Halt(z).fluegelzug].fahrplan) > 0

\* C33: splitting seeds the split-off train: after Fluegelung.anwenden on a stop with a
\* linked split-off train F, the current verspaetung of F and the verspaetung_an of F's
\* first stop both equal the verspaetung_an of the split stop, and F has been
\* propagated; and a split stop has mindestaufenthalt 1 after strategy assignment.
C33_Fluegelung ==
    /\ Korrigiert =>
           \A z \in Ziele :
               Fluegelhalt(z) =>
                   /\ zugliste[Halt(z).fluegelzug].verspaetung = Halt(z).verspaetung_an
                   /\ zugliste[Halt(z).fluegelzug].fahrplan[1].verspaetung_an
                         = Halt(z).verspaetung_an
                   /\ Halt(z).fluegelzug \in aufruf.besucht
    /\ \A z \in Ziele :
           Halt(z).auto_korrektur.art = "Fluegelung" => Halt(z).mindestaufenthalt = 1

\* a late train has reached its split stop, which also carries a reversal marker: the
\* split-off train, reported on time by the feed, has the delay of the parent
C33_Witness ==
    /\ Korrigiert
    /\ \E z \in Ziele :
          /\ Fluegelhalt(z)
          /\ richtungswechsel(Halt(z))
          /\ Halt(z).verspaetung_an > 0
          /\ zugliste[Halt(z).fluegelzug].verspaetung = Halt(z).verspaetung_an
          /\ Halt(z).mindestaufenthalt = 1

(* Links in both directions *)

\* folgezuege_aufloesen has run, on its own or at the end of zuege_uebernehmen
Aufgeloest == fehler = "" /\ aufruf.op \in {"zuege_uebernehmen", "folgezuege_aufloesen"}

\* the trains a stop references
Folgezuege(ziel) == {ziel.ersatzzug, ziel.kuppelzug, ziel.fluegelzug} \ {NoneZid}

\* the trains with a stop that references train t
Stammzuege(t) == {y[1] : y \in Verweise(t)}

\* C34 as stated: links are bidirectional: after folgezuege_aufloesen, whenever a stop
\* of train A references train T through ersatzzug, kuppelzug or fluegelzug, T is in
\* the collection and T's stammzug is A, also when more than one train references the
\* same T.
C34_Beidseitig ==
    Aufgeloest =>
        \A z \in Ziele : \A t \in Folgezuege(Halt(z)) :
            t \in DOMAIN zugliste /\ zugliste[t].stammzug = z[1]

\* C34 amended: after folgezuege_aufloesen, whenever a stop of train A references
\* train T, T is in the collection and T's stammzug is a train with a stop that
\* references T: A itself when A is the only such train, and one of them (stammzug is
\* a single slot) when more than one train references the same T.
C34_Beidseitig_Amended ==
    Aufgeloest =>
        \A z \in Ziele : \A t \in Folgezuege(Halt(z)) :
            /\ t \in DOMAIN zugliste
            /\ zugliste[t].stammzug \in Stammzuege(t)
            /\ Stammzuege(t) = {z[1]} => zugliste[t].stammzug = z[1]

\* two trains reference the same train, whose stammzug is one of the two
C34_Witness ==
    /\ Aufgeloest
    /\ \E t \in DOMAIN zugliste :
          /\ Cardinality(Stammzuege(t)) = 2
          /\ zugliste[t].stammzug \in Stammzuege(t)

(* Stop identity *)

\* stop j of train zid has the same planned arrival, planned departure and planned
\* location in both collections
GleichePlandaten(zl1, zl2, zid, j) ==
    /\ j \in DOMAIN zl2[zid].fahrplan
    /\ zl2[zid].fahrplan[j].an = zl1[zid].fahrplan[j].an
    /\ zl2[zid].fahrplan[j].ab = zl1[zid].fahrplan[j].ab
    /\ zl2[zid].fahrplan[j].plan = zl1[zid].fahrplan[j].plan

\* C35: stop identity is stable: neither ingestion of further snapshots nor delay
\* propagation changes the planned arrival (an), planned departure (ab) or planned
\* location (plan) of an already persisted scheduled stop; propagation writes only
\* delay fields.
C35_Identitaet ==
    [][\A zid \in DOMAIN zugliste \cap DOMAIN zugliste' :
           \A j \in DOMAIN zugliste[zid].fahrplan :
               GleichePlandaten(zugliste, zugliste', zid, j)]_vars

(* Nesting depth of the propagation *)

\* the trains the stops of train zid reference
Folgende(zl, zid) ==
    {t \in DOMAIN zl : \E j \in DOMAIN zl[zid].fahrplan :
        t \in {zl[zid].fahrplan[j].ersatzzug, zl[zid].fahrplan[j].kuppelzug,
               zl[zid].fahrplan[j].fluegelzug}}

\* the largest of a set of naturals, 0 for the empty set
Groesste(S) == IF S = {} THEN 0 ELSE CHOOSE n \in S : \A m \in S : m <= n

\* number of trains of the longest link chain that starts at train zid, followed over
\* at most n trains
RECURSIVE Kette(_, _, _)
Kette(zl, zid, n) ==
    IF n = 0 THEN 0
    ELSE 1 + Groesste({Kette(zl, t, n - 1) : t \in Folgende(zl, zid)})

\* no chain of links returns to a train it has passed
Azyklisch(zl) ==
    \A zid \in DOMAIN zl :
        Kette(zl, zid, Cardinality(DOMAIN zl) + 1) <= Cardinality(DOMAIN zl)

LaengsteKette(zl) ==
    Groesste({Kette(zl, zid, Cardinality(DOMAIN zl)) : zid \in DOMAIN zl})

\* C36: for collections whose replacement/coupling/split links are acyclic, a full
\* propagation pass terminates and the nesting depth of zugverspaetung_korrigieren
\* calls never exceeds the number of trains in the longest link chain.
C36_Tiefe ==
    aufruf.op = "verspaetungen_korrigieren" /\ Azyklisch(zugliste) =>
        /\ fehler \notin {"RecursionError", "MaxTiefe"}
        /\ aufruf.tiefe <= LaengsteKette(zugliste)

\* a pass over a chain of three trains has nested three calls
C36_Witness ==
    /\ PassBeendet
    /\ Azyklisch(zugliste)
    /\ LaengsteKette(zugliste) = 3
    /\ aufruf.tiefe = 3

(* No early departure *)

\* C37: PlanmaessigeAbfahrt never produces an early departure: for a stop with both
\* planned times and mindestaufenthalt >= 0, the resulting verspaetung_ab is >= 0 for
\* every arrival delay, including negative arrival delays (early arrival).
C37_NieVerfrueht ==
    Korrigiert =>
        \A z \in Ziele :
            /\ NurPlanmaessig(z) /\ HatZeiten(Halt(z))
            /\ Halt(z).mindestaufenthalt >= 0
            => Halt(z).verspaetung_ab >= 0

\* a stop with both planned times was propagated with an early arrival and is
\* estimated to leave on time
C37_Witness ==
    /\ Korrigiert
    /\ \E z \in Ziele :
          /\ NurPlanmaessig(z) /\ HatZeiten(Halt(z))
          /\ Halt(z).mindestaufenthalt >= 0
          /\ Halt(z).verspaetung_an < 0
          /\ Halt(z).verspaetung_ab = 0

(* Position index *)

\* one train from the entry Ost over A and B back to A and on to the exit West: its
\* route holds the planned track A twice
WeltRundfahrt ==
    1 :> Stammdaten("Ost", "West",
                    <<Zeile("A", <<9, 50>>, <<9, 51>>, KeineFlags),
                      Zeile("B", <<9, 55>>, <<9, 56>>, FlagR),
                      Zeile("A", <<10, 0>>, <<10, 1>>, KeineFlags)>>,
                    {0, 1}, 2, AlleLagen)

SpecRundfahrt == InitWelt({WeltRundfahrt, WeltKlein}) /\ [][NextZyklus]_vars

\* the planned track the feed reports for the train is a planned track of its
\* persisted route
AufRoute(zid) ==
    \E j \in DOMAIN zugliste[zid].fahrplan :
        zugliste[zid].fahrplan[j].plan = FeedZug(welt, sim', zid).plangleis

\* C38: a train's position index (ziel_index) never decreases across any sequence of
\* snapshot ingestions, also when the train's route contains the same planned track
\* more than once, and it is left unchanged when the reported planned track is not on
\* the persisted route or the train is withdrawn.
C38_ZielIndex ==
    [][\A zid \in DOMAIN zugliste \cap DOMAIN zugliste' :
           /\ zugliste[zid].ziel_index # NoneIndex =>
                  /\ zugliste'[zid].ziel_index # NoneIndex
                  /\ zugliste'[zid].ziel_index >= zugliste[zid].ziel_index
           /\ ~ImFeed(sim'[zid]) \/ ~AufRoute(zid) =>
                  zugliste'[zid].ziel_index = zugliste[zid].ziel_index]_vars

(* Frame of the propagation *)

\* C39: frame of propagation: zugverspaetung_korrigieren(train, start, stop) on a train
\* with acyclic links changes, among that train's own stops outside the range
\* [start, stop), only the verspaetung_ab of stop start-1 (set to the train's current
\* delay) and the verspaetung_an of an entry stop at index 0; the delays of all other
\* stops before start and at or after stop are unchanged.
C39_Rahmen ==
    [][aufruf'.op = "zugverspaetung_korrigieren" /\ Azyklisch(zugliste) =>
          LET zug == zugliste[aufruf'.zid]
              alt == zug.fahrplan
              neu == zugliste'[aufruf'.zid].fahrplan
          IN  /\ Len(neu) = Len(alt)
              /\ \A i \in 0..(Len(alt) - 1) :
                    i < BereichStart' \/ i >= BereichEnde' =>
                        /\ \/ neu[i + 1].verspaetung_ab = alt[i + 1].verspaetung_ab
                           \/ /\ i = BereichStart' - 1
                              /\ neu[i + 1].verspaetung_ab = zug.verspaetung
                        /\ \/ neu[i + 1].verspaetung_an = alt[i + 1].verspaetung_an
                           \/ /\ i = 0 /\ alt[1].einfahrt
                              /\ neu[1].verspaetung_an = neu[1].verspaetung_ab]_vars

\* a delayed train was propagated over its second stop alone: the first stop has the
\* train's delay as departure delay, the second is seeded with it, the third is as it was
C39_Witness ==
    /\ Zugkorrigiert
    /\ aufruf.start = 1 /\ aufruf.stop = 2
    /\ Len(zugliste[aufruf.zid].fahrplan) = 3
    /\ zugliste[aufruf.zid].verspaetung = 2
    /\ zugliste[aufruf.zid].fahrplan[1].verspaetung_ab = 2
    /\ zugliste[aufruf.zid].fahrplan[2].verspaetung_an = 2
    /\ zugliste[aufruf.zid].fahrplan[3].verspaetung_an = 0

(* Order of the trains in the snapshot *)

\* the automatic strategy kind and the delays of every stop
Kern(zl) ==
    [zid \in DOMAIN zl |->
        [j \in DOMAIN zl[zid].fahrplan |->
            <<zl[zid].fahrplan[j].auto_korrektur.art,
              zl[zid].fahrplan[j].verspaetung_an, zl[zid].fahrplan[j].verspaetung_ab>>]]

\* the outcome of the ingestion of the snapshot of a step, listed in the order folge,
\* and of the full propagation pass after it
NachDurchlauf(folge) ==
    LET r == zuege_uebernehmen(zugliste, schluessel, Snapshot(welt, sim', folge))
    IN  IF r.fehler # "" THEN <<r.fehler>>
        ELSE LET P == VerspaetungenKorrigieren(r.zl, r.keys)
             IN  <<P.fehler, Kern(P.zl)>>

\* C40: order independence: for a fixed set of trains delivered in one or several
\* snapshots, the automatic strategy kind of every stop and every stop's
\* verspaetung_an/verspaetung_ab after link resolution, strategy assignment and a full
\* propagation pass do not depend on the order in which the trains appear in the
\* snapshot (the insertion order of zugliste).
C40_Reihenfolge ==
    [][aufruf'.op = "zuege_uebernehmen" =>
          NachDurchlauf(Aufsteigend(DOMAIN welt)) = NachDurchlauf(Absteigend(DOMAIN welt))]_vars

====
